---- MODULE Spec2Model ----
(***************************************************************************)
(* Price discovery engine of travel-monitor: the train provider fallback  *)
(* (scrape_train_route), the geo-profile multiplexer (_scrape_with_geo),  *)
(* the CSV history store (log_results) and the alert evaluator            *)
(* (check_flight_alerts / check_train_alerts).                            *)
(*                                                                         *)
(* Conventions.  A Python Optional is a set with at most one element:     *)
(* None is {} and a present value v is {v}.  Amounts of money are in      *)
(* hundredths of the currency unit (34,70 EUR is 3470).  A calendar date  *)
(* is its day ordinal, day 0 being a Monday, so weekday() is day % 7.     *)
(***************************************************************************)
EXTENDS Integers, Sequences, FiniteSets, TLC

VARIABLES
    today,          \* datetime.now().date() of the run
    route,          \* the TrainRoute / FlightRoute being processed
    pc,             \* position of the running function
    week_idx,       \* scrape_train_route: index of the week loop
    cabin_idx,      \* scrape_train_route: index (0-based) into route.classes
    next_monday,    \* scrape_train_route: first travel date
    data,           \* scrape_train_route: the local `data` (Optional dict)
    calls,          \* provider invocations of the current (date, cabin) query
    qlog,           \* lines printed since the header line of the current query
    results,        \* the list of PriceResult being built / handed on
    files,          \* data/flights.csv and data/trains.csv
    signals,        \* what the alert evaluator emitted, one entry per evaluation
    clock,          \* source of datetime.now().isoformat()
    geo_idx,        \* _scrape_with_geo: index (0-based) into GEO_PROFILES
    best_price_eur, \* _scrape_with_geo local (Optional)
    best_result,    \* _scrape_with_geo local (Optional dict)
    best_geo,       \* _scrape_with_geo local (Optional profile id)
    query,          \* _scrape_with_geo arguments: cabin, dep_date, ret_date
    old_csv,        \* the legacy prices.csv next to the program
    config,         \* load_config(): the flight and the train routes
    route_idx,      \* run_check: index (0-based) into flights then trains
    run_results,    \* run_check: flight_results / train_results, in order
    history,        \* what the last read_history calls returned
    runs,           \* how many times run_check has been entered
    page_text       \* page.inner_text("body") as lines of tokens

vars == <<today, route, pc, week_idx, cabin_idx, next_monday, data, calls,
          qlog, results, files, signals, clock, geo_idx, best_price_eur,
          best_result, best_geo, query, old_csv, config, route_idx,
          run_results, history, runs, page_text>>

trainVars == <<week_idx, cabin_idx, next_monday, data, calls>>
geoVars == <<geo_idx, best_price_eur, best_result, best_geo, query>>
mainVars == <<old_csv, config, route_idx, run_results, history, runs>>

(***************************************************************************)
(* Bounds of the model                                                     *)
(***************************************************************************)
MaxWeeks == 2       \* largest route.weeks explored
MaxEvals == 2       \* how many times the same batch is evaluated
MaxAlertWeeks == 3  \* most weeks in a batch handed to the alert evaluator
MaxRuns == 2        \* how many times run_check is entered
MaxLines == 3       \* most lines of an enumerated page

(***************************************************************************)
(* Optional values and small helpers                                       *)
(***************************************************************************)
None == {}
Some(v) == {v}
Get(o) == CHOOSE v \in o : TRUE

Last(s) == s[Len(s)]

\* str.upper() on the cabin names the configuration uses
Upper(cabin) ==
    CASE cabin = "economy" -> "ECONOMY"
      [] cabin = "business" -> "BUSINESS"
      [] cabin = "turista" -> "TURISTA"
      [] cabin = "preferente" -> "PREFERENTE"
      [] OTHER -> cabin

(***************************************************************************)
(* scrapers/base.py                                                        *)
(***************************************************************************)
CSV_HEADERS ==
    <<"timestamp", "route_id", "transport_type", "cabin_class",
      "price", "currency", "airline", "stops", "duration",
      "train_type", "departure_time", "arrival_time",
      "week_start", "travel_date">>

\* PriceResult(...) with the dataclass defaults for what is not passed
PriceResult(timestamp, route_id, transport_type, cabin_class, week_start, travel_date) ==
    [timestamp |-> timestamp, route_id |-> route_id,
     transport_type |-> transport_type, cabin_class |-> cabin_class,
     price |-> None, currency |-> "EUR",
     airline |-> "", stops |-> 0, duration |-> "",
     train_type |-> "", departure_time |-> "", arrival_time |-> "",
     week_start |-> week_start, travel_date |-> travel_date]

has_price(r) == r.price # None /\ Get(r.price) > 0

\* Variant of to_csv_row: the currency column is written whether or not a
\* price was found
to_csv_row_currency_always(r) ==
    <<ToString(r.timestamp), r.route_id, r.transport_type, r.cabin_class,
      IF r.price # None /\ Get(r.price) > 0 THEN ToString(Get(r.price)) ELSE "",
      r.currency,
      r.airline,
      IF r.transport_type = "flight" THEN ToString(r.stops) ELSE "",
      r.duration, r.train_type, r.departure_time, r.arrival_time,
      ToString(r.week_start), ToString(r.travel_date)>>

\* to_csv_row followed by csv.DictWriter.writerow: the cells in CSV_HEADERS
\* order, every value written as text
to_csv_row(r) ==
    <<ToString(r.timestamp), r.route_id, r.transport_type, r.cabin_class,
      IF has_price(r) THEN ToString(Get(r.price)) ELSE "",
      IF has_price(r) THEN r.currency ELSE "",
      r.airline,
      IF r.transport_type = "flight" THEN ToString(r.stops) ELSE "",
      r.duration, r.train_type, r.departure_time, r.arrival_time,
      ToString(r.week_start), ToString(r.travel_date)>>

(***************************************************************************)
(* storage.py                                                              *)
(***************************************************************************)
\* A file is absent, or exists with the lines written to it so far
NoFile == [exists |-> FALSE, lines |-> <<>>]

RECURSIVE RowsOf(_)
\* [item.to_csv_row() for item in items]
RowsOf(items) ==
    IF items = <<>> THEN <<>>
    ELSE <<to_csv_row(Head(items))>> \o RowsOf(Tail(items))

\* by_type.keys() in insertion order: the transport types in order of first
\* appearance in the list
RECURSIVE TypesInOrder(_, _)
TypesInOrder(rs, seen) ==
    IF rs = <<>> THEN <<>>
    ELSE IF Head(rs).transport_type \in seen THEN TypesInOrder(Tail(rs), seen)
         ELSE <<Head(rs).transport_type>>
              \o TypesInOrder(Tail(rs), seen \cup {Head(rs).transport_type})

\* Variant of the loop body that writes the header on every call
AppendToFileWithHeader(f, items) ==
    [exists |-> TRUE, lines |-> f.lines \o <<CSV_HEADERS>> \o RowsOf(items)]

\* Variant of the loop body that opens the file with "w"
AppendToFileTruncating(f, items) ==
    [exists |-> TRUE, lines |-> <<CSV_HEADERS>> \o RowsOf(items)]

\* the body of the `for transport_type, items` loop: open(csv_path, "a"),
\* header when the file is new, then one row per item
AppendToFile(f, items) ==
    [exists |-> TRUE,
     lines |-> f.lines \o (IF f.exists THEN <<>> ELSE <<CSV_HEADERS>>)
                       \o RowsOf(items)]

RECURSIVE LogByType(_, _, _)
LogByType(fs, types, rs) ==
    IF types = <<>> THEN fs
    ELSE LET t == Head(types)
             items == SelectSeq(rs, LAMBDA r : r.transport_type = t)
         IN LogByType([fs EXCEPT ![t] = AppendToFile(fs[t], items)],
                      Tail(types), rs)

\* log_results(results): the store after the call
log_results(fs, rs) ==
    IF rs = <<>> THEN fs ELSE LogByType(fs, TypesInOrder(rs, {}), rs)

(***************************************************************************)
(* alerts.py: check_flight_alerts / check_train_alerts                     *)
(***************************************************************************)
\* route.alerts.get(key, default)
DictGet(d, key, default) == IF key \in DOMAIN d THEN d[key] ELSE default

\* Variant of the selection that takes the dearest observation
MaxByPrice(rs) ==
    LET i == CHOOSE k \in 1..Len(rs) :
                 /\ \A m \in 1..Len(rs) : Get(rs[k].price) >= Get(rs[m].price)
                 /\ \A m \in 1..(k - 1) : Get(rs[m].price) < Get(rs[k].price)
    IN rs[i]

\* min(cabin_results, key=lambda r: r.price): the first of the cheapest
MinByPrice(rs) ==
    LET i == CHOOSE k \in 1..Len(rs) :
                 /\ \A m \in 1..Len(rs) : Get(rs[k].price) <= Get(rs[m].price)
                 /\ \A m \in 1..(k - 1) : Get(rs[m].price) > Get(rs[k].price)
    IN rs[i]

FlightLabel(cabin) == IF cabin = "economy" THEN "Turista" ELSE "Business"
TrainLabel(cabin) == IF cabin = "turista" THEN "Turista" ELSE "Preferente"

\* Variant of the cabin evaluation whose gap is threshold minus price
CabinSignalGapReversed(priced, rt, cabin, label) ==
    LET cabin_upper == Upper(cabin)
        cabin_results == SelectSeq(priced, LAMBDA r : r.cabin_class = cabin_upper)
        best == MinByPrice(cabin_results)
        threshold == DictGet(rt.alerts, cabin \o "_max", 999900)
    IN IF cabin_results = <<>> THEN <<>>
       ELSE IF Get(best.price) <= threshold
            THEN <<[kind |-> "buy", route_id |-> rt.id, cabin |-> cabin,
                    label |-> label, best |-> best, threshold |-> threshold]>>
            ELSE <<[kind |-> "gap", route_id |-> rt.id, cabin |-> cabin,
                    label |-> label, best |-> best, threshold |-> threshold,
                    diff |-> threshold - Get(best.price)]>>

\* the body of `for cabin in route.classes` for one cabin: <<>> when the
\* cabin has no priced observation, else the one signal it emits.  A "buy"
\* stands for notify_macos + send_email + the COMPRAR line, a "gap" for the
\* "faltan ... para umbral" line.
CabinSignal(priced, rt, cabin, label) ==
    LET cabin_upper == Upper(cabin)
        cabin_results == SelectSeq(priced, LAMBDA r : r.cabin_class = cabin_upper)
        best == MinByPrice(cabin_results)
        threshold == DictGet(rt.alerts, cabin \o "_max", 999900)
    IN IF cabin_results = <<>> THEN <<>>
       ELSE IF Get(best.price) <= threshold
            THEN <<[kind |-> "buy", route_id |-> rt.id, cabin |-> cabin,
                    label |-> label, best |-> best, threshold |-> threshold]>>
            ELSE <<[kind |-> "gap", route_id |-> rt.id, cabin |-> cabin,
                    label |-> label, best |-> best, threshold |-> threshold,
                    diff |-> Get(best.price) - threshold]>>

RECURSIVE FlightCabins(_, _, _)
FlightCabins(priced, rt, classes) ==
    IF classes = <<>> THEN <<>>
    ELSE CabinSignal(priced, rt, Head(classes), FlightLabel(Head(classes)))
         \o FlightCabins(priced, rt, Tail(classes))

RECURSIVE TrainCabins(_, _, _)
TrainCabins(priced, rt, classes) ==
    IF classes = <<>> THEN <<>>
    ELSE CabinSignal(priced, rt, Head(classes), TrainLabel(Head(classes)))
         \o TrainCabins(priced, rt, Tail(classes))

\* check_flight_alerts(results, route, config): what one call emits
check_flight_alerts(rs, rt) ==
    LET priced == SelectSeq(rs, has_price)
    IN IF priced = <<>> THEN <<>> ELSE FlightCabins(priced, rt, rt.classes)

\* check_train_alerts(results, route, config): what one call emits
check_train_alerts(rs, rt) ==
    LET priced == SelectSeq(rs, has_price)
    IN IF priced = <<>> THEN <<>> ELSE TrainCabins(priced, rt, rt.classes)

(***************************************************************************)
(* scrapers/train_scraper.py                                               *)
(***************************************************************************)
TRAINLINE_URNS ==
    [c \in {"MADRI", "OUREN", "BARCE", "MALAG"} |->
        CASE c = "MADRI" -> "urn:trainline:generic:loc:5927"
          [] c = "OUREN" -> "urn:trainline:generic:loc:5976"
          [] c = "BARCE" -> "urn:trainline:generic:loc:5828"
          [] c = "MALAG" -> "urn:trainline:generic:loc:5958"]

\* One extracted result row: the dict built by _extract_renfe_results and
\* _extract_generic_prices
Row(price, train_type, departure_time, arrival_time, duration) ==
    [price |-> price, train_type |-> train_type,
     departure_time |-> departure_time, arrival_time |-> arrival_time,
     duration |-> duration]

\* What _extract_renfe_results can return for the page the browser read:
\* rows sorted by price, each price strictly between 5 and 500 EUR
RenfeResultLists ==
    {<<>>,
     <<Row(2500, "", "07:14", "09:36", "2h 22m"),
       Row(3470, "", "09:20", "11:50", "2h 30m")>>}

\* What _extract_generic_prices can return for a Trainline / Omio page
GenericResultLists ==
    {<<>>, <<Row(4000, "AVE", "06:30", "08:45", "2h 15m")>>}

\* What can happen inside the `with sync_playwright()` block of a provider:
\* an exception (timeout, selector not found, malformed page state), one of
\* Renfe's two checked early returns, or a page whose text was extracted
Outcome(kind, rows) == [kind |-> kind, results |-> rows]
RenfeOutcomes ==
    {Outcome("error", <<>>), Outcome("form incomplete", <<>>),
     Outcome("unexpected URL", <<>>)}
    \cup {Outcome("page", l) : l \in RenfeResultLists}
GenericOutcomes ==
    {Outcome("error", <<>>)} \cup {Outcome("page", l) : l \in GenericResultLists}

\* round(price * 1.6, 2) on hundredths: 8c/5 is never half-way between two
\* hundredths, so the nearest hundredth is (8c + 2) div 5
Markup(price) == (8 * price + 2) \div 5

\* Variant of the tier selection that returns the first row of the upper
\* half of the price-sorted rows when there are two rows or more
TierSelectUpperMedian(rows, cabin) ==
    IF rows = <<>> THEN None
    ELSE IF cabin = "turista" THEN Some(rows[1])
         ELSE IF Len(rows) >= 2 THEN Some(rows[Len(rows) \div 2 + 1])
              ELSE Some([rows[1] EXCEPT !.price = Markup(@)])

\* `if cabin == "turista": return results[0]` / `else: ... * 1.6`, and None
\* when the extractor returned nothing
TierSelect(rows, cabin) ==
    IF rows = <<>> THEN None
    ELSE IF cabin = "turista" THEN Some(rows[1])
         ELSE Some([rows[1] EXCEPT !.price = Markup(@)])

Line(who, what) == [who |-> who, what |-> what]

\* What a provider call yields: the value returned, the lines printed, how
\* the call ended, and whether an exception left the function
Result(kind, ret, out) ==
    [kind |-> kind, ret |-> ret, raised |-> FALSE, out |-> out]

\* _scrape_renfe(route, travel_date, cabin) under outcome o (every statement
\* that can fail is inside try / except Exception)
scrape_renfe(rt, cabin, o) ==
    IF o.kind = "page"
    THEN Result("page", TierSelect(o.results, cabin), <<>>)
    ELSE Result(o.kind, None, <<Line("Renfe", o.kind)>>)

\* Variant of _scrape_trainline without the try / except around the browser
\* session: the exception leaves the function
scrape_trainline_unguarded(rt, cabin, o) ==
    IF rt.origin_code \notin DOMAIN TRAINLINE_URNS
       \/ rt.destination_code \notin DOMAIN TRAINLINE_URNS
    THEN Result("no URN", None, <<>>)
    ELSE IF o.kind = "page"
         THEN Result("page", TierSelect(o.results, cabin), <<>>)
         ELSE [Result(o.kind, None, <<>>) EXCEPT !.raised = TRUE]

\* _scrape_trainline(route, travel_date, cabin) under outcome o
scrape_trainline(rt, cabin, o) ==
    IF rt.origin_code \notin DOMAIN TRAINLINE_URNS
       \/ rt.destination_code \notin DOMAIN TRAINLINE_URNS
    THEN Result("no URN", None, <<>>)
    ELSE IF o.kind = "page"
         THEN Result("page", TierSelect(o.results, cabin), <<>>)
         ELSE Result(o.kind, None, <<Line("Trainline", o.kind)>>)

\* _scrape_omio(route, travel_date, cabin) under outcome o
scrape_omio(rt, cabin, o) ==
    IF o.kind = "page"
    THEN Result("page", TierSelect(o.results, cabin), <<>>)
    ELSE Result(o.kind, None, <<Line("Omio", o.kind)>>)

\* Variant of the fallback test with the price test inverted
NoPriceInverted(d) == d = None \/ Get(d).price # 0

\* `not data or not data.get("price")`
NoPrice(d) == d = None \/ Get(d).price = 0

\* Variant of the computation without `if days_until_monday == 0`
NextMondayOrToday(day) == day + ((7 - (day % 7)) % 7)

\* the (7 - weekday) % 7 computation of the first travel date
NextMonday(day) ==
    LET days_until_monday == (7 - (day % 7)) % 7
    IN day + (IF days_until_monday = 0 THEN 7 ELSE days_until_monday)

TravelDate == next_monday + 7 * week_idx
Cabin == route.classes[cabin_idx + 1]
Call(provider, r) == [provider |-> provider, kind |-> r.kind, ret |-> r.ret]

\* scrape_train_route, lines 485-492: banner, results = [], next_monday
ScrapeTrainRouteBegin ==
    /\ pc = "scrape_train_route"
    /\ results' = <<>>
    /\ next_monday' = NextMonday(today)
    /\ week_idx' = 0
    /\ cabin_idx' = 0
    /\ data' = None
    /\ calls' = <<>>
    /\ qlog' = <<>>
    /\ pc' = IF route.weeks > 0 /\ route.classes # <<>>
             THEN "renfe" ELSE "log_train_results"
    /\ UNCHANGED <<today, page_text,
                   route, mainVars, files, signals, clock, geoVars>>

\* lines 498-505: header line, data = None, data = _scrape_renfe(...)
RenfeAttempt ==
    /\ pc = "renfe"
    /\ \E o \in RenfeOutcomes :
          LET r == scrape_renfe(route, Cabin, o)
          IN /\ data' = r.ret
             /\ calls' = <<Call("Renfe", r)>>
             /\ qlog' = <<Line("scan", "header")>> \o r.out
             /\ pc' = IF r.raised THEN "crashed" ELSE "trainline"
    /\ UNCHANGED <<today, page_text, route, mainVars,
                   week_idx, cabin_idx, next_monday, results,
                   files, signals, clock, geoVars>>

\* lines 507-510: the Trainline fallback
TrainlineFallback ==
    /\ pc = "trainline"
    /\ IF NoPrice(data)
       THEN \E o \in GenericOutcomes :
               LET r == scrape_trainline(route, Cabin, o)
               IN /\ data' = r.ret
                  /\ calls' = Append(calls, Call("Trainline", r))
                  /\ qlog' = qlog
                             \o <<Line("scan", "Renfe sin datos, Trainline...")>>
                             \o r.out
                  /\ pc' = IF r.raised THEN "crashed" ELSE "omio"
       ELSE /\ pc' = "omio"
            /\ UNCHANGED <<data, calls, qlog>>
    /\ UNCHANGED <<today, page_text, route, mainVars,
                   week_idx, cabin_idx, next_monday, results,
                   files, signals, clock, geoVars>>

\* lines 512-515: the Omio fallback
OmioFallback ==
    /\ pc = "omio"
    /\ IF NoPrice(data)
       THEN \E o \in GenericOutcomes :
               LET r == scrape_omio(route, Cabin, o)
               IN /\ data' = r.ret
                  /\ calls' = Append(calls, Call("Omio", r))
                  /\ qlog' = qlog
                             \o <<Line("scan", "Trainline sin datos, Omio...")>>
                             \o r.out
                  /\ pc' = IF r.raised THEN "crashed" ELSE "append"
       ELSE /\ pc' = "append"
            /\ UNCHANGED <<data, calls, qlog>>
    /\ UNCHANGED <<today, page_text, route, mainVars,
                   week_idx, cabin_idx, next_monday, results,
                   files, signals, clock, geoVars>>

\* Variant of the observation that leaves the clock times of the provider's
\* row out
TrainObservationNoTimes(d) ==
    LET base == PriceResult(clock, route.id, "train", Upper(Cabin),
                            TravelDate, TravelDate)
    IN IF ~(d = None \/ Get(d).price = 0)
       THEN [base EXCEPT !.price = Some(Get(d).price),
                         !.currency = "EUR",
                         !.train_type = Get(d).train_type,
                         !.duration = Get(d).duration]
       ELSE base

\* lines 517-542: the PriceResult appended for the query
TrainObservation(d) ==
    LET base == PriceResult(clock, route.id, "train", Upper(Cabin),
                            TravelDate, TravelDate)
    IN IF ~NoPrice(d)
       THEN [base EXCEPT !.price = Some(Get(d).price),
                         !.currency = "EUR",
                         !.train_type = Get(d).train_type,
                         !.departure_time = Get(d).departure_time,
                         !.arrival_time = Get(d).arrival_time,
                         !.duration = Get(d).duration]
       ELSE base

\* Variant of the append step that records a query only when a price was
\* found
AppendObservationPricedOnly ==
    /\ pc = "append"
    /\ results' = IF data = None \/ Get(data).price = 0 THEN results
                  ELSE Append(results, TrainObservation(data))
    /\ qlog' = Append(qlog, Line("scan", "price"))
    /\ clock' = clock + 1
    /\ IF cabin_idx + 1 < Len(route.classes)
       THEN /\ cabin_idx' = cabin_idx + 1
            /\ week_idx' = week_idx
            /\ pc' = "renfe"
       ELSE /\ cabin_idx' = 0
            /\ week_idx' = week_idx + 1
            /\ pc' = IF week_idx + 1 < route.weeks THEN "renfe"
                     ELSE "log_train_results"
    /\ UNCHANGED <<today, page_text, route, mainVars,
                   next_monday, data, calls, files, signals,
                   geoVars>>

\* lines 517-544 and the loop increments: append the observation, print the
\* price or "Sin datos", go on to the next cabin / week or return
AppendObservation ==
    /\ pc = "append"
    /\ results' = Append(results, TrainObservation(data))
    /\ qlog' = Append(qlog, Line("scan", IF ~NoPrice(data) THEN "price"
                                         ELSE "Sin datos"))
    /\ clock' = clock + 1
    /\ IF cabin_idx + 1 < Len(route.classes)
       THEN /\ cabin_idx' = cabin_idx + 1
            /\ week_idx' = week_idx
            /\ pc' = "renfe"
       ELSE /\ cabin_idx' = 0
            /\ week_idx' = week_idx + 1
            /\ pc' = IF week_idx + 1 < route.weeks THEN "renfe"
                     ELSE "log_train_results"
    /\ UNCHANGED <<today, page_text, route, mainVars,
                   next_monday, data, calls, files, signals,
                   geoVars>>

(***************************************************************************)
(* monitor.py: run_check, the body of the train loop after the scrape      *)
(***************************************************************************)
\* line 62: log_results(results) in the train loop
LogTrainResults ==
    /\ pc = "log_train_results"
    /\ files' = log_results(files, results)
    /\ pc' = "check_train_alerts"
    /\ UNCHANGED <<today, page_text, route, mainVars,
                   trainVars, qlog, results, signals, clock,
                   geoVars>>

\* line 63: check_train_alerts(results, route, config)
CheckTrainAlerts ==
    /\ pc = "check_train_alerts"
    /\ signals' = Append(signals, check_train_alerts(results, route))
    /\ pc' = "done"
    /\ UNCHANGED <<today, page_text, route, mainVars,
                   trainVars, qlog, results, files, clock,
                   geoVars>>

\* line 52: log_results(results) in the flight loop
LogFlightResults ==
    /\ pc = "log_flight_results"
    /\ files' = log_results(files, results)
    /\ pc' = "check_flight_alerts"
    /\ UNCHANGED <<today, page_text, route, mainVars,
                   trainVars, qlog, results, signals, clock,
                   geoVars>>

\* Variant of check_flight_alerts that, having alerted, drops the priced
\* observations from the batch so that they are not alerted on again
CheckFlightAlertsConsuming ==
    /\ pc = "check_flight_alerts"
    /\ signals' = Append(signals, check_flight_alerts(results, route))
    /\ results' = SelectSeq(results, LAMBDA r : r.price = None)
    /\ pc' = "done"
    /\ UNCHANGED <<today, page_text, route, mainVars,
                   trainVars, qlog, files, clock, geoVars>>

\* line 53: check_flight_alerts(results, route, config)
CheckFlightAlerts ==
    /\ pc = "check_flight_alerts"
    /\ signals' = Append(signals, check_flight_alerts(results, route))
    /\ pc' = "done"
    /\ UNCHANGED <<today, page_text, route, mainVars,
                   trainVars, qlog, results, files, clock,
                   geoVars>>

(***************************************************************************)
(* Specification of one train route going through run_check                *)
(***************************************************************************)
TrainRouteOf(id, destination_name, destination_code, classes, alerts, weeks) ==
    [id |-> id, origin_name |-> "Madrid", origin_code |-> "MADRI",
     destination_name |-> destination_name,
     destination_code |-> destination_code,
     classes |-> classes, alerts |-> alerts, weeks |-> weeks]

\* Train routes of the explored configurations: the dataclass defaults for
\* classes and alerts (30 / 60 EUR), or one cabin, a destination Trainline
\* has no URN for and thresholds every estimate stays under
TrainRoutes ==
    {TrainRouteOf("MAD-OUR", "Ourense", "OUREN", <<"turista", "preferente">>,
                  [k \in {"turista_max", "preferente_max"} |->
                      IF k = "turista_max" THEN 3000 ELSE 6000], w)
        : w \in 0..MaxWeeks}
    \cup
    {TrainRouteOf("MAD-VGO", "Vigo", "VIGO", <<"turista">>,
                  [k \in {"turista_max"} |-> 4000], w)
        : w \in 1..MaxWeeks}

\* A row written by an earlier run
OldTrainRow ==
    <<"0", "MAD-OUR", "train", "TURISTA", "2810", "EUR", "", "", "2h 22m",
      "", "07:14", "09:36", "0", "0">>

\* The store before the run: nothing yet, or a train file of an earlier run
InitialStores ==
    {[t \in {"flight", "train"} |-> NoFile],
     [t \in {"flight", "train"} |->
        IF t = "train"
        THEN [exists |-> TRUE, lines |-> <<CSV_HEADERS, OldTrainRow>>]
        ELSE NoFile]}

Days == 0..6

GeoIdle ==
    /\ geo_idx = 0
    /\ best_price_eur = None
    /\ best_result = None
    /\ best_geo = None
    /\ query = None

\* main() is not running: no legacy file, no configuration loaded
MainIdle ==
    /\ old_csv = [exists |-> FALSE, header |-> <<>>, rows |-> <<>>]
    /\ config = [flights |-> <<>>, trains |-> <<>>]
    /\ route_idx = 0
    /\ run_results = <<>>
    /\ history = <<>>
    /\ runs = 0

TrainInit ==
    /\ today \in Days
    /\ page_text = <<>>
    /\ route \in TrainRoutes
    /\ pc = "scrape_train_route"
    /\ week_idx = 0
    /\ cabin_idx = 0
    /\ next_monday = 0
    /\ data = None
    /\ calls = <<>>
    /\ qlog = <<>>
    /\ results = <<>>
    /\ files \in InitialStores
    /\ signals = <<>>
    /\ clock = 1
    /\ GeoIdle
    /\ MainIdle

TrainNext ==
    \/ ScrapeTrainRouteBegin
    \/ RenfeAttempt
    \/ TrainlineFallback
    \/ OmioFallback
    \/ AppendObservation
    \/ LogTrainResults
    \/ CheckTrainAlerts

SpecTrain == TrainInit /\ [][TrainNext]_vars

(***************************************************************************)
(* scrapers/flight_scraper.py: the geo-profile multiplexer                 *)
(***************************************************************************)
Geo(id, locale, currency, hl, timezone) ==
    [id |-> id, locale |-> locale, currency |-> currency, hl |-> hl,
     timezone |-> timezone]

GEO_PROFILES ==
    <<Geo("ES", "es-ES", "EUR", "es", "Europe/Madrid"),
      Geo("US", "en-US", "USD", "en", "America/New_York"),
      Geo("MX", "es-MX", "MXN", "es", "America/Mexico_City"),
      Geo("CO", "es-CO", "COP", "es", "America/Bogota"),
      Geo("UK", "en-GB", "GBP", "en", "Europe/London"),
      Geo("DE", "de-DE", "EUR", "de", "Europe/Berlin")>>

\* EXCHANGE_TO_EUR, each rate as the fraction num / den
Rate(num, den) == [num |-> num, den |-> den]
EXCHANGE_TO_EUR ==
    [c \in {"EUR", "USD", "GBP", "MXN", "COP", "BRL"} |->
        CASE c = "EUR" -> Rate(1, 1)
          [] c = "USD" -> Rate(92, 100)
          [] c = "GBP" -> Rate(117, 100)
          [] c = "MXN" -> Rate(47, 1000)
          [] c = "COP" -> Rate(23, 100000)
          [] c = "BRL" -> Rate(17, 100)]

\* round(x, 2) of the amount n / den hundredths: to the nearest hundredth, a
\* tie going to the even one
RoundHundredths(n, den) ==
    LET q == n \div den
        r == n % den
    IN IF 2 * r < den THEN q
       ELSE IF 2 * r > den THEN q + 1
            ELSE IF q % 2 = 0 THEN q ELSE q + 1

\* _to_eur(price, currency)
to_eur(price, currency) ==
    LET rate == DictGet(EXCHANGE_TO_EUR, currency, Rate(1, 1))
    IN RoundHundredths(price * rate.num, rate.den)

\* What the page of one profile can show for the destination: the price in
\* the profile's currency with the stops and duration next to it (450, 410
\* and 100 currency units)
FlightFinds ==
    {[price |-> 45000, stops |-> 1, duration_min |-> 845, duration |-> "14h 5m"],
     [price |-> 41000, stops |-> 0, duration_min |-> 690, duration |-> "11h 30m"],
     [price |-> 10000, stops |-> 2, duration_min |-> 1200, duration |-> "20h"]}

\* the dict _extract_explore_data appends for a find (lines 154-165)
ExploreResult(find, currency) ==
    [price |-> find.price,
     price_eur |-> IF currency # "EUR" THEN to_eur(find.price, currency)
                   ELSE find.price,
     currency |-> currency, stops |-> find.stops,
     duration_min |-> find.duration_min, duration |-> find.duration,
     airline |-> ""]

\* What one iteration of `for geo in GEO_PROFILES` can meet: an exception
\* before _scrape_single returns (session, navigation, timeout, selector),
\* or a page read with or without a result for the destination, in which
\* case closing the page and the wait after it may still raise
GeoOutcomes ==
    {[kind |-> "error", find |-> None, late_error |-> FALSE],
     [kind |-> "page", find |-> None, late_error |-> FALSE]}
    \cup {[kind |-> "page", find |-> Some(f), late_error |-> e] :
             f \in FlightFinds, e \in BOOLEAN}

Best(price_eur, result, geo) ==
    [price_eur |-> price_eur, result |-> result, geo |-> geo]

\* Variant of the reduction that keeps the latest usable result
reduce_keep_latest(best, result, geo) ==
    IF result = None THEN best
    ELSE LET price_eur == Get(result).price_eur
         IN IF price_eur <= 10000 THEN best
            ELSE Best(Some(price_eur), result, Some(geo.id))

\* lines 230-240: the reduction applied to what _scrape_single returned
reduce(best, result, geo) ==
    IF result = None THEN best
    ELSE LET price_eur == Get(result).price_eur
         IN IF price_eur <= 10000 THEN best
            ELSE IF best.price_eur = None \/ price_eur < Get(best.price_eur)
                 THEN Best(Some(price_eur), result, Some(geo.id))
                 ELSE best

\* the lines one iteration prints: the tag of a result, the error line
GeoLines(geo, o, isBest) ==
    (IF o.kind = "page" /\ o.find # None
     THEN <<Line(geo.id, IF isBest THEN "tag *BEST*" ELSE "tag")>> ELSE <<>>)
    \o (IF o.kind = "error" \/ o.late_error
        THEN <<Line(geo.id, "error")>> ELSE <<>>)

\* lines 197-202: header line and the three locals
GeoBegin ==
    /\ pc = "_scrape_with_geo"
    /\ best_price_eur' = None
    /\ best_result' = None
    /\ best_geo' = None
    /\ geo_idx' = 0
    /\ calls' = <<>>
    /\ qlog' = <<Line("scan", "header")>>
    /\ pc' = "geo_profile"
    /\ UNCHANGED <<today, page_text, route, mainVars,
                   week_idx, cabin_idx, next_monday, data,
                   results, files, signals, clock, query>>

\* Variant of the loop body without the try / except: an exception leaves
\* _scrape_with_geo
GeoProfileAttemptUnguarded ==
    /\ pc = "geo_profile"
    /\ \E o \in GeoOutcomes :
          LET geo == GEO_PROFILES[geo_idx + 1]
              result == IF o.find = None THEN None
                        ELSE Some(ExploreResult(Get(o.find), geo.currency))
              old == Best(best_price_eur, best_result, best_geo)
              new == reduce(old, result, geo)
          IN /\ best_price_eur' = new.price_eur
             /\ best_result' = new.result
             /\ best_geo' = new.geo
             /\ calls' = Append(calls, [provider |-> geo.id, kind |-> o.kind,
                                        ret |-> result, late_error |-> o.late_error])
             /\ qlog' = qlog \o GeoLines(geo, [o EXCEPT !.kind = "page",
                                                        !.late_error = FALSE],
                                         new # old)
             /\ pc' = IF o.kind = "error" \/ o.late_error THEN "crashed"
                      ELSE IF geo_idx + 1 < Len(GEO_PROFILES)
                           THEN "geo_profile" ELSE "geo_return"
    /\ geo_idx' = geo_idx + 1
    /\ UNCHANGED <<today, page_text, route, mainVars,
                   week_idx, cabin_idx, next_monday, data,
                   results, files, signals, clock, query>>

\* lines 204-252: one iteration of `for geo in GEO_PROFILES`
GeoProfileAttempt ==
    /\ pc = "geo_profile"
    /\ \E o \in GeoOutcomes :
          LET geo == GEO_PROFILES[geo_idx + 1]
              result == IF o.find = None THEN None
                        ELSE Some(ExploreResult(Get(o.find), geo.currency))
              old == Best(best_price_eur, best_result, best_geo)
              new == reduce(old, result, geo)
          IN /\ best_price_eur' = new.price_eur
             /\ best_result' = new.result
             /\ best_geo' = new.geo
             /\ calls' = Append(calls, [provider |-> geo.id, kind |-> o.kind,
                                        ret |-> result, late_error |-> o.late_error])
             /\ qlog' = qlog \o GeoLines(geo, o, new # old)
    /\ geo_idx' = geo_idx + 1
    /\ pc' = IF geo_idx + 1 < Len(GEO_PROFILES) THEN "geo_profile"
             ELSE "geo_return"
    /\ UNCHANGED <<today, page_text, route, mainVars,
                   week_idx, cabin_idx, next_monday, data,
                   results, files, signals, clock, query>>

\* lines 254-278: the PriceResult returned
GeoObservation ==
    LET q == Get(query)
        base == PriceResult(clock, route.id, "flight", Upper(q.cabin),
                            q.dep_date, q.dep_date)
    IN IF best_result # None
       THEN [base EXCEPT !.price = Some(Get(best_price_eur)),
                         !.currency = "EUR",
                         !.airline = Get(best_result).airline,
                         !.stops = Get(best_result).stops,
                         !.duration = Get(best_result).duration]
       ELSE base

\* lines 254-278: print the best or "Sin datos en ninguna ubicacion" and
\* return the observation
GeoReturn ==
    /\ pc = "geo_return"
    /\ results' = Append(results, GeoObservation)
    /\ qlog' = Append(qlog, Line("scan", IF best_result # None THEN "Mejor"
                                         ELSE "Sin datos en ninguna ubicacion"))
    /\ clock' = clock + 1
    /\ pc' = "done"
    /\ UNCHANGED <<today, page_text,
                   route, mainVars, trainVars, files, signals, geoVars>>

(***************************************************************************)
(* Specification of one flight query going through _scrape_with_geo        *)
(***************************************************************************)
\* The flight route of the configuration, with the dataclass defaults for
\* classes and alerts (800 / 2200 EUR)
FlightRouteOf(classes, alerts, weeks) ==
    [id |-> "VGO-MEX", origin |-> "VGO", origin_name |-> "Vigo",
     origin_geo |-> "/m/0fq8f", destination |-> "MEX",
     destination_name |-> "Ciudad de Mexico", destination_geo |-> "/m/04sqj",
     classes |-> classes, alerts |-> alerts, weeks |-> weeks]

DefaultFlightAlerts ==
    [k \in {"economy_max", "business_max"} |->
        IF k = "economy_max" THEN 80000 ELSE 220000]

GeoInit ==
    /\ today = 0
    /\ page_text = <<>>
    /\ route = FlightRouteOf(<<"economy", "business">>, DefaultFlightAlerts, 1)
    /\ pc = "_scrape_with_geo"
    /\ week_idx = 0
    /\ cabin_idx = 0
    /\ next_monday = NextMonday(today)
    /\ data = None
    /\ calls = <<>>
    /\ qlog = <<>>
    /\ results = <<>>
    /\ files = [t \in {"flight", "train"} |-> NoFile]
    /\ signals = <<>>
    /\ clock = 1
    /\ geo_idx = 0
    /\ best_price_eur = None
    /\ best_result = None
    /\ best_geo = None
    /\ MainIdle
    /\ \E c \in {"business"} :
          query = Some([cabin |-> c, dep_date |-> NextMonday(today),
                        ret_date |-> NextMonday(today) + 3])

GeoNext ==
    \/ GeoBegin
    \/ GeoProfileAttempt
    \/ GeoReturn

SpecGeo == GeoInit /\ [][GeoNext]_vars

(***************************************************************************)
(* Specification of the alert evaluator applied to the batch of a route    *)
(***************************************************************************)
\* Routes handed to the evaluator: the dataclass defaults, and a route that
\* monitors one cabin and configures no threshold for it (so that
\* alerts.get falls back to 9999)
AlertFlightRoutes(w) ==
    {FlightRouteOf(<<"economy", "business">>, DefaultFlightAlerts, w),
     FlightRouteOf(<<"economy">>, [k \in {"business_max"} |-> 220000], w)}

AlertTrainRoutes(w) ==
    {TrainRouteOf("MAD-OUR", "Ourense", "OUREN", <<"turista", "preferente">>,
                  [k \in {"turista_max", "preferente_max"} |->
                      IF k = "turista_max" THEN 3000 ELSE 6000], w)}

\* The prices a scan can have recorded for a cabin: none, one at or under
\* the default threshold, one above it
BatchPrices(cabin) ==
    CASE cabin = "economy" -> {None, Some(75000), Some(82000)}
      [] cabin = "business" -> {None, Some(220000), Some(250000)}
      [] cabin = "turista" -> {None, Some(2500), Some(3470)}
      [] cabin = "preferente" -> {None, Some(4000), Some(6400)}

RECURSIVE PriceLists(_, _)
\* every assignment of a price (or none) to the first m queries of a scan of
\* classes, in week-major order
PriceLists(classes, m) ==
    IF m = 0 THEN {<<>>}
    ELSE {Append(l, p) :
             l \in PriceLists(classes, m - 1),
             p \in BatchPrices(classes[((m - 1) % Len(classes)) + 1])}

\* The list a scrape of rt returns when the queries found priceOf: one
\* observation per (week, cabin) in week-major order
Batch(rt, transport, priceOf) ==
    LET n == Len(rt.classes)
    IN [k \in 1..(rt.weeks * n) |->
          LET d == 7 * (1 + ((k - 1) \div n))
          IN [PriceResult(k, rt.id, transport,
                          Upper(rt.classes[((k - 1) % n) + 1]), d, d)
              EXCEPT !.price = priceOf[k]]]

AlertsInit ==
    /\ today = 0
    /\ page_text = <<>>
    /\ week_idx = 0
    /\ cabin_idx = 0
    /\ next_monday = NextMonday(today)
    /\ data = None
    /\ calls = <<>>
    /\ qlog = <<>>
    /\ files \in InitialStores
    /\ signals = <<>>
    /\ clock = 1
    /\ GeoIdle
    /\ MainIdle
    /\ \E w \in 0..MaxAlertWeeks, transport \in {"flight", "train"} :
          \E rt \in (IF transport = "flight" THEN AlertFlightRoutes(w)
                     ELSE AlertTrainRoutes(w)) :
             \E priceOf \in PriceLists(rt.classes, w * Len(rt.classes)) :
                /\ route = rt
                /\ results = Batch(rt, transport, priceOf)
                /\ pc = IF transport = "flight" THEN "log_flight_results"
                        ELSE "log_train_results"

\* the evaluator is called once more on the batch it was given
EvaluateAgain ==
    /\ pc = "done"
    /\ Len(signals) < MaxEvals
    /\ pc' = IF "origin_code" \in DOMAIN route
             THEN "check_train_alerts" ELSE "check_flight_alerts"
    /\ UNCHANGED <<today, page_text, route, mainVars,
                   trainVars, qlog, results, files, signals,
                   clock, geoVars>>

AlertsNext ==
    \/ LogFlightResults
    \/ CheckFlightAlerts
    \/ LogTrainResults
    \/ CheckTrainAlerts
    \/ EvaluateAgain

SpecAlerts == AlertsInit /\ [][AlertsNext]_vars

(***************************************************************************)
(* storage.py: migrate_old_csv and read_history                            *)
(***************************************************************************)
\* csv.DictReader: r.get(key, default) of the row under the header line
CellGet(header, row, key, default) ==
    IF \E i \in 1..Len(header) : header[i] = key
    THEN row[CHOOSE i \in 1..Len(header) : header[i] = key]
    ELSE default

\* lines 72-87 followed by DictWriter.writerows: the line written for one
\* row of prices.csv, in CSV_HEADERS order
MigratedRow(header, r) ==
    <<CellGet(header, r, "timestamp", ""), "VGO-MEX", "flight",
      CellGet(header, r, "cabin", "ECONOMY"),
      CellGet(header, r, "price", ""),
      CellGet(header, r, "currency", ""),
      CellGet(header, r, "airline", ""),
      CellGet(header, r, "stops", ""),
      CellGet(header, r, "duration", ""),
      "", "", "", "", "">>

\* Variant of migrate_old_csv without the "already migrated" return
migrate_old_csv_unguarded(old, fs) ==
    IF ~old.exists THEN fs
    ELSE LET rows == [i \in 1..Len(old.rows) |->
                         MigratedRow(old.header, old.rows[i])]
         IN IF rows # <<>>
            THEN [fs EXCEPT !["flight"] =
                     [exists |-> TRUE, lines |-> <<CSV_HEADERS>> \o rows]]
            ELSE fs

\* migrate_old_csv(): the store after the call
migrate_old_csv(old, fs) ==
    IF ~old.exists THEN fs
    ELSE IF fs["flight"].exists THEN fs
    ELSE LET rows == [i \in 1..Len(old.rows) |->
                         MigratedRow(old.header, old.rows[i])]
         IN IF rows # <<>>
            THEN [fs EXCEPT !["flight"] =
                     [exists |-> TRUE, lines |-> <<CSV_HEADERS>> \o rows]]
            ELSE fs

\* read_history(transport_type, route_id): the rows under the first line,
\* those of the route when a route_id is given
read_history(fs, transport_type, route_id) ==
    IF ~fs[transport_type].exists \/ fs[transport_type].lines = <<>>
    THEN <<>>
    ELSE SelectSeq(Tail(fs[transport_type].lines),
                   LAMBDA r : route_id = None \/ r[2] = Get(route_id))

(***************************************************************************)
(* monitor.py: main and run_check, and scrape_flight_route                 *)
(***************************************************************************)
\* Variant of run_check's loops without lines 48-49 and 58-59: the route
\* filter is not consulted
ScheduledUnfiltered ==
    (IF config.trains_only THEN <<>> ELSE config.flights)
    \o (IF config.flights_only THEN <<>> ELSE config.trains)

\* run_check's loops, lines 46-49 and 56-59: config.flights unless
\* trains_only, then config.trains unless flights_only, without the routes
\* that `if route_filter and route.id != route_filter: continue` skips
Scheduled ==
    LET kept(rt) == config.route_filter = None
                    \/ rt.id = Get(config.route_filter)
    IN SelectSeq(IF config.trains_only THEN <<>> ELSE config.flights, kept)
       \o SelectSeq(IF config.flights_only THEN <<>> ELSE config.trains, kept)
IsFlightRoute(rt) == "origin_code" \notin DOMAIN rt

\* where the processing of a route starts
ScanEntry(rt) ==
    IF IsFlightRoute(rt) THEN "scrape_flight_route" ELSE "scrape_train_route"

\* lines 90-100: every mode of main() calls migrate_old_csv() first
MainMigrate ==
    /\ pc \in {"main", "stopped"}
    /\ files' = migrate_old_csv(old_csv, files)
    /\ pc' = "migrated"
    /\ UNCHANGED <<today, page_text,
                   route, mainVars, trainVars, qlog, results, signals,
                   clock, geoVars>>

\* line 92: --migrate returns after the migration
MainReturn ==
    /\ pc = "migrated"
    /\ pc' = "main"
    /\ UNCHANGED <<today, page_text,
                   route, mainVars, trainVars, qlog, results, files,
                   signals, clock, geoVars>>

\* dashboard.py lines 19-34: read_history for every flight route, then for
\* every train route
DashboardRows ==
    LET routes == config.flights \o config.trains
    IN [i \in 1..Len(routes) |->
          read_history(files,
                       IF IsFlightRoute(routes[i]) THEN "flight" ELSE "train",
                       Some(routes[i].id))]

\* lines 94-97: --dashboard regenerates the dashboard and returns
MainDashboard ==
    /\ pc = "migrated"
    /\ history' = DashboardRows
    /\ pc' = "main"
    /\ UNCHANGED <<today, page_text,
                   route, old_csv, config, route_idx, run_results,
                   runs, trainVars, qlog, results, files, signals, clock,
                   geoVars>>

\* lines 33-49 and 56-59: run_check is entered (from main, or by the daemon
\* loop after its sleep): the two dicts are emptied and the first route
\* that the arguments let through is taken
RunCheckBegin ==
    /\ pc \in {"migrated", "sleep"}
    /\ runs < MaxRuns
    /\ runs' = runs + 1
    /\ run_results' = <<>>
    /\ signals' = <<>>
    /\ route_idx' = 0
    /\ IF Scheduled # <<>>
       THEN /\ route' = Scheduled[1]
            /\ pc' = ScanEntry(Scheduled[1])
       ELSE /\ route' = route
            /\ pc' = "generate_dashboard"
    /\ UNCHANGED <<today, page_text,
                   old_csv, config, history, trainVars, qlog, results,
                   files, clock, geoVars>>

\* What _scrape_with_geo can end with: no usable result in any profile, or
\* the best of the profiles
FlightQueryOutcomes ==
    {Best(None, None, None),
     Best(Some(41000),
          Some(ExploreResult([price |-> 41000, stops |-> 0,
                              duration_min |-> 690, duration |-> "11h 30m"],
                             "EUR")),
          Some("ES"))}

\* _scrape_with_geo lines 254-278: the PriceResult returned for the query
FlightObservation(best) ==
    LET base == PriceResult(clock, route.id, "flight", Upper(Cabin),
                            TravelDate, TravelDate)
    IN IF best.result # None
       THEN [base EXCEPT !.price = Some(Get(best.price_eur)),
                         !.currency = "EUR",
                         !.airline = Get(best.result).airline,
                         !.stops = Get(best.result).stops,
                         !.duration = Get(best.result).duration]
       ELSE base

\* scrape_flight_route lines 287-304 and 367-372: results = [], then the
\* browser is launched and next_monday computed; if the launch raises, the
\* except clause prints the error and the empty list is returned
ScrapeFlightRouteBegin ==
    /\ pc = "scrape_flight_route"
    /\ results' = <<>>
    /\ week_idx' = 0
    /\ cabin_idx' = 0
    /\ data' = None
    /\ calls' = <<>>
    /\ \E launched \in BOOLEAN :
          IF launched
          THEN /\ next_monday' = NextMonday(today)
               /\ qlog' = <<>>
               /\ pc' = IF route.weeks > 0 /\ route.classes # <<>>
                        THEN "flight_query" ELSE "log_flight_results"
          ELSE /\ next_monday' = next_monday
               /\ qlog' = <<Line("scan", "Error scraping flights")>>
               /\ pc' = "log_flight_results"
    /\ UNCHANGED <<today, page_text,
                   route, mainVars, files, signals, clock, geoVars>>

\* Variant of the query step that writes the observation to the store as
\* soon as it is made
ScrapeFlightQueryLogging ==
    /\ pc = "flight_query"
    /\ \E best \in FlightQueryOutcomes :
          /\ results' = Append(results, FlightObservation(best))
          /\ files' = log_results(files, <<FlightObservation(best)>>)
    /\ query' = Some([cabin |-> Cabin, dep_date |-> TravelDate,
                       ret_date |-> TravelDate + 3])
    /\ clock' = clock + 1
    /\ IF cabin_idx + 1 < Len(route.classes)
       THEN /\ cabin_idx' = cabin_idx + 1
            /\ week_idx' = week_idx
            /\ pc' = "flight_query"
       ELSE /\ cabin_idx' = 0
            /\ week_idx' = week_idx + 1
            /\ pc' = IF week_idx + 1 < route.weeks THEN "flight_query"
                     ELSE "log_flight_results"
    /\ UNCHANGED <<today, page_text,
                   route, mainVars, next_monday, data, calls, qlog,
                   signals, geo_idx, best_price_eur, best_result, best_geo>>

\* scrape_flight_route lines 306-316 and 363: one (week, cabin) query,
\* dep_date and ret_date = dep_date + 3 days as the arguments of
\* _scrape_with_geo, result = _scrape_with_geo(...), results.append(result)
ScrapeFlightQuery ==
    /\ pc = "flight_query"
    /\ \E best \in FlightQueryOutcomes :
          results' = Append(results, FlightObservation(best))
    /\ query' = Some([cabin |-> Cabin, dep_date |-> TravelDate,
                       ret_date |-> TravelDate + 3])
    /\ clock' = clock + 1
    /\ IF cabin_idx + 1 < Len(route.classes)
       THEN /\ cabin_idx' = cabin_idx + 1
            /\ week_idx' = week_idx
            /\ pc' = "flight_query"
       ELSE /\ cabin_idx' = 0
            /\ week_idx' = week_idx + 1
            /\ pc' = IF week_idx + 1 < route.weeks THEN "flight_query"
                     ELSE "log_flight_results"
    /\ UNCHANGED <<today, page_text,
                   route, mainVars, next_monday, data, calls, qlog,
                   files, signals, geo_idx, best_price_eur, best_result,
                   best_geo>>

\* What the provider chain of one train query can end with: every provider
\* exhausted, or the row of the first provider that had a price
TrainQueryOutcomes ==
    {None, Some(Row(2500, "", "07:14", "09:36", "2h 22m"))}

\* Variant of the provider chain in which exhausting the providers raises
TrainProvidersRaising ==
    /\ pc = "renfe"
    /\ data' \in TrainQueryOutcomes
    /\ pc' = IF data' = None THEN "crashed" ELSE "append"
    /\ UNCHANGED <<today, page_text,
                   route, mainVars, week_idx, cabin_idx, next_monday,
                   calls, qlog, results, files, signals, clock, geoVars>>

\* scrape_train_route lines 498-515: Renfe, then Trainline, then Omio
TrainProviders ==
    /\ pc = "renfe"
    /\ data' \in TrainQueryOutcomes
    /\ pc' = "append"
    /\ UNCHANGED <<today, page_text,
                   route, mainVars, week_idx, cabin_idx, next_monday,
                   calls, qlog, results, files, signals, clock, geoVars>>

\* run_check lines 51-52 / 61-62: the route's list goes into the dict of
\* the run and is handed to log_results
RunLogResults ==
    /\ pc \in {"log_flight_results", "log_train_results"}
    /\ run_results' = Append(run_results, [id |-> route.id, results |-> results])
    /\ files' = log_results(files, results)
    /\ pc' = "run_check_alerts"
    /\ UNCHANGED <<today, page_text,
                   route, old_csv, config, route_idx, history, runs,
                   trainVars, qlog, results, signals, clock, geoVars>>

\* Variant of notify_macos without its try / except: a failure of the
\* osascript call leaves the function
notify_macos_unguarded(o) ==
    [kind |-> o, ret |-> None, raised |-> o = "error", out |-> <<>>]

\* alerts.py notify_macos(title, msg) under the outcome of the osascript
\* call: `except Exception: pass`
notify_macos(o) == Result(o, None, <<>>)

\* alerts.py send_email(config, subject, body) with e-mail enabled and
\* configured, under the outcome of the SMTP session: sent, or a failure
\* that `except Exception as e` prints
send_email(o) == Result(o, None, <<Line("email", o)>>)

\* run_check lines 53 / 63 and the loop: the alert evaluator for the route,
\* then the next route, or the dashboard after the last one.  Every buy
\* signal of the call goes to notify_macos and send_email, which meet the
\* same outcome during the call; an exception leaving one of them would
\* leave the evaluator and run_check before the signal is printed.
RunCheckAlerts ==
    /\ pc = "run_check_alerts"
    /\ \E n \in {"ok", "error"}, e \in {"sent", "error"} :
          LET emitted == IF IsFlightRoute(route)
                         THEN check_flight_alerts(results, route)
                         ELSE check_train_alerts(results, route)
              buys == {k \in 1..Len(emitted) : emitted[k].kind = "buy"}
              raised == buys # {}
                        /\ (notify_macos(n).raised \/ send_email(e).raised)
          IN /\ signals' = Append(signals,
                                  IF raised
                                  THEN SubSeq(emitted, 1,
                                              (CHOOSE k \in buys :
                                                 \A m \in buys : k <= m) - 1)
                                  ELSE emitted)
             /\ calls' = IF buys = {} THEN calls
                         ELSE calls \o <<Call("osascript", notify_macos(n)),
                                         Call("smtp", send_email(e))>>
             /\ qlog' = IF buys = {} THEN qlog ELSE qlog \o send_email(e).out
             /\ IF raised
                THEN /\ pc' = "crashed"
                     /\ UNCHANGED <<route, route_idx>>
                ELSE /\ route_idx' = route_idx + 1
                     /\ IF route_idx + 1 < Len(Scheduled)
                        THEN /\ route' = Scheduled[route_idx + 2]
                             /\ pc' = ScanEntry(Scheduled[route_idx + 2])
                        ELSE /\ route' = route
                             /\ pc' = "generate_dashboard"
    /\ UNCHANGED <<today, page_text, old_csv, config, run_results, history,
                   runs, week_idx, cabin_idx, next_monday, data, results,
                   files, clock, geoVars>>

\* run_check lines 66-75 and main lines 108-114: the dashboard reads the
\* history, the summary is sent, and the program ends or the daemon sleeps
GenerateDashboard ==
    /\ pc = "generate_dashboard"
    /\ history' = DashboardRows
    /\ pc' \in {"main", "sleep"}
    /\ UNCHANGED <<today, page_text,
                   route, old_csv, config, route_idx, run_results,
                   runs, trainVars, qlog, results, files, signals, clock,
                   geoVars>>

\* KeyboardInterrupt between two queries of a scan or during the sleep: it
\* is no Exception, so no except clause of the scrapers catches it; it
\* leaves run_check, and main lines 110-112 stop the daemon (without
\* --daemon the program ends with the traceback)
Interrupt ==
    /\ pc \in {"flight_query", "renfe", "sleep"}
    /\ pc' = "stopped"
    /\ UNCHANGED <<today, page_text,
                   route, mainVars, trainVars, qlog, results, files,
                   signals, clock, geoVars>>

(***************************************************************************)
(* Specification of main(): migration, then run_check over the routes      *)
(***************************************************************************)
LegacyHeader ==
    <<"timestamp", "cabin", "price", "currency", "airline", "stops",
      "duration">>

\* prices.csv: absent, a header line only, two rows, or a file of the time
\* before the cabin column
LegacyFiles ==
    {[exists |-> FALSE, header |-> <<>>, rows |-> <<>>],
     [exists |-> TRUE, header |-> LegacyHeader, rows |-> <<>>],
     [exists |-> TRUE, header |-> LegacyHeader,
      rows |-> <<<<"2024-01-08T09:00", "BUSINESS", "2100", "EUR", "Iberia",
                   "1", "14h 5m">>,
                 <<"2024-01-09T09:00", "ECONOMY", "", "", "", "", "">>>>],
     [exists |-> TRUE,
      header |-> <<"timestamp", "price", "currency", "airline", "stops",
                   "duration">>,
      rows |-> <<<<"2023-06-01T09:00", "790", "EUR", "", "1", "">>>>]}

\* A flight row written by an earlier run
OldFlightRow ==
    <<"0", "VGO-MEX", "flight", "ECONOMY", "79000", "EUR", "", "1", "14h 5m",
      "", "", "", "0", "0">>

\* The store when main() starts: as for a train route, or with a flight
\* file of an earlier run
MainStores ==
    InitialStores
    \cup {[t \in {"flight", "train"} |->
             IF t = "flight"
             THEN [exists |-> TRUE, lines |-> <<CSV_HEADERS, OldFlightRow>>]
             ELSE NoFile]}

\* config.json: the flight route and a train route, or train routes only
MainConfigs ==
    {[flights |-> <<FlightRouteOf(<<"economy", "business">>,
                                  DefaultFlightAlerts, 1)>>,
      trains |-> <<TrainRouteOf("MAD-VGO", "Vigo", "VIGO", <<"turista">>,
                                [k \in {"turista_max"} |-> 4000], 1)>>],
     [flights |-> <<>>,
      trains |-> <<TrainRouteOf("MAD-OUR", "Ourense", "OUREN",
                                <<"turista", "preferente">>,
                                [k \in {"turista_max", "preferente_max"} |->
                                    IF k = "turista_max" THEN 3000 ELSE 6000],
                                1),
                   TrainRouteOf("MAD-VGO", "Vigo", "VIGO", <<"turista">>,
                                [k \in {"turista_max"} |-> 4000], 1)>>]}

\* main lines 80-88 and 107 / 114: the configuration together with the
\* arguments --route, --flights and --trains that main hands to run_check
WithArguments(cfg, route_filter, flights_only, trains_only) ==
    [flights |-> cfg.flights, trains |-> cfg.trains,
     route_filter |-> route_filter, flights_only |-> flights_only,
     trains_only |-> trains_only]

\* The runs with a restricting argument: a route of the configuration (the
\* first or the last of its routes), a route it does not have, one transport
\* only, or a route of the transport that is left out
FilteredRuns ==
    {WithArguments(c, Some(id), FALSE, FALSE) :
        c \in MainConfigs, id \in {"VGO-MEX", "MAD-VGO", "BCN-SVQ"}}
    \cup {WithArguments(c, None, f, ~f) : c \in MainConfigs, f \in BOOLEAN}
    \cup {WithArguments(c, Some("VGO-MEX"), FALSE, TRUE) : c \in MainConfigs}

MainInit ==
    /\ today = 0
    /\ page_text = <<>>
    /\ \/ /\ config \in {WithArguments(c, None, FALSE, FALSE) :
                            c \in MainConfigs}
          /\ files \in MainStores
          /\ old_csv \in LegacyFiles
       \/ /\ config \in FilteredRuns
          /\ files = [t \in {"flight", "train"} |-> NoFile]
          /\ old_csv = [exists |-> FALSE, header |-> <<>>, rows |-> <<>>]
    /\ route = (config.flights \o config.trains)[1]
    /\ pc = "main"
    /\ week_idx = 0
    /\ cabin_idx = 0
    /\ next_monday = NextMonday(today)
    /\ data = None
    /\ calls = <<>>
    /\ qlog = <<>>
    /\ results = <<>>
    /\ signals = <<>>
    /\ clock = 1
    /\ GeoIdle
    /\ route_idx = 0
    /\ run_results = <<>>
    /\ history = <<>>
    /\ runs = 0

MainNext ==
    \/ MainMigrate
    \/ MainReturn
    \/ MainDashboard
    \/ RunCheckBegin
    \/ ScrapeFlightRouteBegin
    \/ ScrapeFlightQuery
    \/ ScrapeTrainRouteBegin
    \/ TrainProviders
    \/ AppendObservation
    \/ RunLogResults
    \/ RunCheckAlerts
    \/ GenerateDashboard
    \/ Interrupt

SpecMain == MainInit /\ [][MainNext]_vars

(***************************************************************************)
(* Specification of the travel dates of one route scan                     *)
(***************************************************************************)
\* scrape_flight_route(route) or scrape_train_route(route) is called on any
\* day of the week for a route of 0 to MaxWeeks weeks
DatesInit ==
    /\ today \in Days
    /\ page_text = <<>>
    /\ route \in TrainRoutes
                 \cup {FlightRouteOf(<<"economy", "business">>,
                                     DefaultFlightAlerts, w) : w \in 0..MaxWeeks}
    /\ pc = ScanEntry(route)
    /\ week_idx = 0
    /\ cabin_idx = 0
    /\ next_monday = 0
    /\ data = None
    /\ calls = <<>>
    /\ qlog = <<>>
    /\ results = <<>>
    /\ files = [t \in {"flight", "train"} |-> NoFile]
    /\ signals = <<>>
    /\ clock = 1
    /\ GeoIdle
    /\ MainIdle

DatesNext ==
    \/ ScrapeFlightRouteBegin
    \/ ScrapeFlightQuery
    \/ ScrapeTrainRouteBegin
    \/ TrainProviders
    \/ AppendObservation

SpecDates == DatesInit /\ [][DatesNext]_vars

(***************************************************************************)
(* utils.py: the protobuf encoder of the tfs parameter.  A str is the      *)
(* sequence of its code points, bytes are a sequence of numbers 0..255.    *)
(***************************************************************************)
\* the code points of the texts handed to the encoder
CodePoints(s) ==
    CASE s = "" -> <<>>
      [] s = "/m/0fq8f" -> <<47, 109, 47, 48, 102, 113, 56, 102>>
      [] s = "/m/04sqj" -> <<47, 109, 47, 48, 52, 115, 113, 106>>
      [] s = "MEX" -> <<77, 69, 88>>
      [] s = "Cancún" -> <<67, 97, 110, 99, 250, 110>>

\* dep_date.strftime("%Y-%m-%d"), day 0 being Monday 2026-11-09
Strftime(day) ==
    LET n == 9 + day
        month == IF n <= 30 THEN 1 ELSE 2
        dd == IF n <= 30 THEN n ELSE n - 30
    IN <<50, 48, 50, 54, 45, 49, 48 + month, 45, 48 + (dd \div 10),
         48 + (dd % 10)>>

RECURSIVE Utf8(_)
\* s.encode("utf-8") for code points below 2048
Utf8(s) ==
    IF s = <<>> THEN <<>>
    ELSE (IF Head(s) < 128 THEN <<Head(s)>>
          ELSE <<192 + (Head(s) \div 64), 128 + (Head(s) % 64)>>)
         \o Utf8(Tail(s))

RECURSIVE pb_varint(_)
pb_varint(value) ==
    IF value > 127 THEN <<(value % 128) + 128>> \o pb_varint(value \div 128)
    ELSE <<value % 128>>

\* (field << 3) | wire_type, the wire type being below 8
pb_tag(field, wire_type) == pb_varint(field * 8 + wire_type)
pb_field_varint(field, value) == pb_tag(field, 0) \o pb_varint(value)
pb_field_bytes(field, bytes) ==
    pb_tag(field, 2) \o pb_varint(Len(bytes)) \o bytes
pb_field_string(field, s) == pb_field_bytes(field, Utf8(s))

\* the URL-safe base64 alphabet: the code point of the digit of value i
B64Char(i) ==
    IF i < 26 THEN 65 + i
    ELSE IF i < 52 THEN 97 + (i - 26)
    ELSE IF i < 62 THEN 48 + (i - 52)
    ELSE IF i = 62 THEN 45 ELSE 95

RECURSIVE urlsafe_b64encode(_)
\* base64.urlsafe_b64encode: three bytes to four digits, "=" (61) padding
urlsafe_b64encode(bytes) ==
    IF bytes = <<>> THEN <<>>
    ELSE LET b1 == bytes[1]
             b2 == IF Len(bytes) >= 2 THEN bytes[2] ELSE 0
             b3 == IF Len(bytes) >= 3 THEN bytes[3] ELSE 0
         IN <<B64Char(b1 \div 4), B64Char((b1 % 4) * 16 + (b2 \div 16))>>
            \o (IF Len(bytes) >= 2
                THEN <<B64Char((b2 % 16) * 4 + (b3 \div 64))>> ELSE <<61>>)
            \o (IF Len(bytes) >= 3 THEN <<B64Char(b3 % 64)>> ELSE <<61>>)
            \o (IF Len(bytes) > 3
                THEN urlsafe_b64encode(SubSeq(bytes, 4, Len(bytes)))
                ELSE <<>>)

RECURSIVE Rstrip(_, _)
\* .rstrip(b"=")
Rstrip(s, c) ==
    IF s # <<>> /\ s[Len(s)] = c THEN Rstrip(SubSeq(s, 1, Len(s) - 1), c)
    ELSE s

\* Variant of build_explore_tfs that writes the cabin before the passengers
build_explore_tfs_cabin_first(origin_geo, dest_geo, dep_date, ret_date, cabin) ==
    LET cabin_val == IF cabin = "economy" THEN 1 ELSE 3
        origin_sub == pb_field_varint(1, 2) \o pb_field_string(2, origin_geo)
        dep_leg == pb_field_string(2, dep_date) \o pb_field_bytes(13, origin_sub)
        ret_leg == pb_field_string(2, ret_date) \o pb_field_bytes(14, origin_sub)
        dest_sub == pb_field_string(2, dest_geo)
        filter_sub == <<8, 255, 255, 255, 255, 255, 255, 255, 255, 255, 1>>
        tfs == pb_field_varint(1, 28)
               \o pb_field_varint(2, 3)
               \o pb_field_bytes(3, dep_leg)
               \o pb_field_bytes(3, ret_leg)
               \o pb_field_varint(9, cabin_val)
               \o pb_field_varint(8, 1)
               \o pb_field_varint(14, 1)
               \o pb_field_bytes(16, filter_sub)
               \o pb_field_varint(19, 1)
               \o pb_field_bytes(22, dest_sub)
    IN [raised |-> FALSE, tfs |-> Rstrip(urlsafe_b64encode(tfs), 61)]

\* build_explore_tfs(origin_geo, dest_geo, dep_date, ret_date, cabin) for
\* str arguments: no statement of it raises, the token is returned
build_explore_tfs(origin_geo, dest_geo, dep_date, ret_date, cabin) ==
    LET cabin_val == IF cabin = "economy" THEN 1 ELSE 3
        origin_sub == pb_field_varint(1, 2) \o pb_field_string(2, origin_geo)
        dep_leg == pb_field_string(2, dep_date) \o pb_field_bytes(13, origin_sub)
        ret_leg == pb_field_string(2, ret_date) \o pb_field_bytes(14, origin_sub)
        dest_sub == pb_field_string(2, dest_geo)
        filter_sub == <<8, 255, 255, 255, 255, 255, 255, 255, 255, 255, 1>>
        tfs == pb_field_varint(1, 28)
               \o pb_field_varint(2, 3)
               \o pb_field_bytes(3, dep_leg)
               \o pb_field_bytes(3, ret_leg)
               \o pb_field_varint(8, 1)
               \o pb_field_varint(9, cabin_val)
               \o pb_field_varint(14, 1)
               \o pb_field_bytes(16, filter_sub)
               \o pb_field_varint(19, 1)
               \o pb_field_bytes(22, dest_sub)
    IN [raised |-> FALSE, tfs |-> Rstrip(urlsafe_b64encode(tfs), 61)]

\* _scrape_single lines 171-182, once per geo profile of the query: the
\* token is built from the route's geo tokens, the two dates as text and
\* the cabin
ScrapeSingleBuildTfs ==
    /\ pc = "geo_profile"
    /\ geo_idx < Len(GEO_PROFILES)
    /\ LET q == Get(query)
       IN calls' = Append(calls,
                          [provider |-> GEO_PROFILES[geo_idx + 1].id,
                           ret |-> build_explore_tfs(
                                      CodePoints(route.origin_geo),
                                      CodePoints(route.destination_geo),
                                      Strftime(q.dep_date),
                                      Strftime(q.ret_date), q.cabin)])
    /\ geo_idx' = geo_idx + 1
    /\ UNCHANGED <<today, page_text,
                   route, mainVars, week_idx, cabin_idx, next_monday,
                   data, qlog, results, files, signals, clock, pc,
                   best_price_eur, best_result, best_geo, query>>

(***************************************************************************)
(* Specification of the encoder called for the profiles of one query       *)
(***************************************************************************)
\* The flight route as configured; with the origin_geo default "" of a
\* configuration that names none; with an airport code, or a place name, in
\* the place of the destination token
TfsRoutes ==
    LET rt == FlightRouteOf(<<"economy", "business">>, DefaultFlightAlerts, 1)
    IN {rt, [rt EXCEPT !.origin_geo = ""],
        [rt EXCEPT !.destination_geo = "MEX"],
        [rt EXCEPT !.destination_geo = "Cancún"]}

TfsInit ==
    /\ today \in Days
    /\ page_text = <<>>
    /\ route \in TfsRoutes
    /\ pc = "_scrape_with_geo"
    /\ week_idx \in 0..MaxWeeks
    /\ cabin_idx = 0
    /\ next_monday = NextMonday(today)
    /\ data = None
    /\ calls = <<>>
    /\ qlog = <<>>
    /\ results = <<>>
    /\ files = [t \in {"flight", "train"} |-> NoFile]
    /\ signals = <<>>
    /\ clock = 1
    /\ geo_idx = 0
    /\ best_price_eur = None
    /\ best_result = None
    /\ best_geo = None
    /\ MainIdle
    /\ \E c \in {"economy", "business", "first"} :
          query = Some([cabin |-> c, dep_date |-> next_monday + 7 * week_idx,
                        ret_date |-> next_monday + 7 * week_idx + 3])

TfsNext ==
    \/ GeoBegin
    \/ ScrapeSingleBuildTfs

SpecTfs == TfsInit /\ [][TfsNext]_vars

(***************************************************************************)
(* Page text.  A page is the list of its lines (text.split("\n")); a line  *)
(* is a sequence of tokens: a digit, a separator, a blank or a currency    *)
(* sign is one token each, a word or a place name is one token.  The       *)
(* regular expressions of the extractors are matched on the tokens.        *)
(***************************************************************************)
Digits == {"0", "1", "2", "3", "4", "5", "6", "7", "8", "9"}

RECURSIVE Run(_, _, _)
\* how many tokens from position p on are of the class: [class]*
Run(line, p, class) ==
    IF p <= Len(line) /\ line[p] \in class
    THEN 1 + Run(line, p + 1, class) ELSE 0

\* the position after \s* read from position p (a line break is a blank)
Skip(line, p) == p + Run(line, p, {" ", "\n"})

\* the token at position p, "" past the end of the line
At(line, p) == IF p \in 1..Len(line) THEN line[p] ELSE ""

RECURSIVE Number(_)
\* int(...) of a run of digits, 0 for the empty run
Number(ds) ==
    IF ds = <<>> THEN 0
    ELSE 10 * Number(SubSeq(ds, 1, Len(ds) - 1))
         + (CHOOSE n \in 0..9 : ToString(n) = ds[Len(ds)])

RECURSIVE Join(_)
\* the text of a run of tokens
Join(ts) == IF ts = <<>> THEN "" ELSE Head(ts) \o Join(Tail(ts))

\* line.strip()
Strip(line) ==
    LET inked == {k \in 1..Len(line) : line[k] \notin {" ", "\n"}}
    IN IF inked = {} THEN <<>>
       ELSE SubSeq(line, CHOOSE k \in inked : \A m \in inked : k <= m,
                   CHOOSE k \in inked : \A m \in inked : k >= m)

\* str.lower() of a word
Lower(w) ==
    CASE w = "Ciudad de México" -> "ciudad de méxico"
      [] w = "Ciudad de Mexico" -> "ciudad de mexico"
      [] w = "Enlace" -> "enlace"
      [] w = "AVE" -> "ave"
      [] w \in {"Alvia", "ALVIA"} -> "alvia"
      [] w = "AVLO" -> "avlo"
      [] w = "Talgo" -> "talgo"
      [] w = "Intercity" -> "intercity"
      [] w = "Regional" -> "regional"
      [] w = "MD" -> "md"
      [] w = "Avant" -> "avant"
      [] w = "Directo" -> "directo"
      [] w = "Escala" -> "escala"
      [] OTHER -> w

\* utils.normalize of a word: accents removed, then lower case
normalize(w) ==
    IF Lower(w) = "ciudad de méxico" THEN "ciudad de mexico" ELSE Lower(w)

\* float(s) of a text of digits and dots: None where Python raises
\* ValueError, else the value in thousandths (of at most three decimals)
ParseFloat(s) ==
    LET dots == {k \in 1..Len(s) : s[k] = "."}
    IN IF Cardinality(dots) > 1 \/ Len(s) - Cardinality(dots) = 0 THEN None
       ELSE LET d == IF dots = {} THEN Len(s) + 1 ELSE CHOOSE k \in dots : TRUE
                frac == SubSeq(s, d + 1, Len(s)) \o <<"0", "0", "0">>
            IN Some(1000 * Number(SubSeq(s, 1, d - 1))
                    + Number(SubSeq(frac, 1, 3)))

(***************************************************************************)
(* scrapers/flight_scraper.py: _extract_explore_data                       *)
(***************************************************************************)
\* re.search(r'([\d.]+)\s*€', line): group 1 of the leftmost match, the
\* first run of digits and dots that blanks and the sign follow
EurAmount(line) ==
    LET class == Digits \cup {"."}
        starts == {s \in 1..Len(line) :
                     /\ line[s] \in class
                     /\ s = 1 \/ line[s - 1] \notin class
                     /\ At(line, Skip(line, s + Run(line, s, class))) = "€"}
    IN IF starts = {} THEN None
       ELSE LET s == CHOOSE k \in starts : \A m \in starts : k <= m
            IN Some(SubSeq(line, s, s + Run(line, s, class) - 1))

\* re.search(r'\$\s*([\d,]+(?:\.\d{2})?)', line), the pattern of USD (and
\* MXN): group 1 of the leftmost match
UsdAmount(line) ==
    LET class == Digits \cup {","}
        starts == {p \in 1..Len(line) :
                     line[p] = "$" /\ Run(line, Skip(line, p + 1), class) > 0}
    IN IF starts = {} THEN None
       ELSE LET s == Skip(line, 1 + CHOOSE k \in starts :
                                        \A m \in starts : k <= m)
                n == Run(line, s, class)
                cents == At(line, s + n) = "."
                         /\ Run(line, s + n + 1, Digits) >= 2
            IN Some(SubSeq(line, s, s + n - 1 + (IF cents THEN 3 ELSE 0)))

\* Variant of lines 127-134 that treats the dots of the group as a decimal
\* point whatever the currency
PriceOfLineDecimalDot(line, currency) ==
    LET pm == IF EurAmount(line) # None \/ currency = "EUR"
              THEN EurAmount(line) ELSE UsdAmount(line)
    IN IF pm = None THEN None
       ELSE Some(ParseFloat(SelectSeq(Get(pm), LAMBDA t : t # ",")))

\* lines 123-134: None when no price pattern matches the line, else what
\* float() makes of the group: None inside when it raises, else the amount
\* in thousandths.  EUR removes the dots of the group, the others the commas.
PriceOfLine(line, currency) ==
    LET pm == IF EurAmount(line) # None \/ currency = "EUR"
              THEN EurAmount(line) ELSE UsdAmount(line)
    IN IF pm = None THEN None
       ELSE Some(ParseFloat(SelectSeq(Get(pm),
                    LAMBDA t : t # (IF currency = "EUR" THEN "." ELSE ","))))

\* line 137: ^\d+\s*(escala|stop|Stopp|parada), case ignored: the count
StopsOfLine(line) ==
    LET n == Run(line, 1, Digits)
    IN IF n > 0 /\ Lower(At(line, Skip(line, n + 1)))
                      \in {"escala", "escalas", "stop", "stops", "stopp",
                           "parada", "paradas"}
       THEN Some(Number(SubSeq(line, 1, n))) ELSE None

\* a word that begins with the letter m
MWords == {"m", "min", "minuto", "minutos"}

\* lines 144-146: ^(\d{1,2})\s*h\s*(\d{1,2})?\s*m, or the same with Std. and
\* Min: the hours and the minutes
DurationOfLine(line) ==
    LET n == Run(line, 1, Digits)
        unit == At(line, Skip(line, n + 1))
        s == Skip(line, Skip(line, n + 1) + 1)
        k == Run(line, s, Digits)
    IN IF /\ n \in {1, 2}
          /\ k <= 2
          /\ \/ unit = "h" /\ At(line, Skip(line, s + k)) \in MWords
             \/ unit = "Std." /\ At(line, Skip(line, s + k)) = "Min"
       THEN Some([h |-> Number(SubSeq(line, 1, n)),
                  m |-> Number(SubSeq(line, s, s + k - 1))])
       ELSE None

RECURSIVE ExploreFromStopping(_, _, _, _)
\* Variant of the loop of _extract_explore_data whose scan of a window ends
\* at the line that gave the price
ExploreFromStopping(lines, i, dname_norm, currency) ==
    LET RECURSIVE Window(_, _)
        Window(j, acc) ==
            IF j > 5 \/ i + j > Len(lines) \/ acc.raised \/ acc.price # None
            THEN acc
            ELSE LET next_line == Strip(lines[i + j])
                     pm == PriceOfLine(next_line, currency)
                     st == StopsOfLine(next_line)
                     dm == DurationOfLine(next_line)
                 IN Window(j + 1,
                      IF pm # None /\ acc.price = None
                      THEN IF Get(pm) = None THEN [acc EXCEPT !.raised = TRUE]
                           ELSE [acc EXCEPT !.price = Get(pm)]
                      ELSE IF st # None THEN [acc EXCEPT !.stops = Get(st)]
                      ELSE IF \E k \in 1..Len(next_line) :
                                 Lower(next_line[k]) \in {"directo", "nonstop"}
                           THEN [acc EXCEPT !.stops = 0]
                      ELSE IF dm # None
                           THEN [acc EXCEPT
                                   !.duration_min = Get(dm).h * 60 + Get(dm).m,
                                   !.duration =
                                      ToString(Get(dm).h) \o "h"
                                      \o (IF Get(dm).m # 0
                                          THEN " " \o ToString(Get(dm).m) \o "m"
                                          ELSE "")]
                      ELSE acc)
        w == Window(1, [price |-> None, stops |-> 0, duration_min |-> 0,
                        duration |-> "", raised |-> FALSE])
    IN IF i > Len(lines) THEN [raised |-> FALSE, results |-> <<>>]
       ELSE IF \A k \in 1..Len(lines[i]) : normalize(lines[i][k]) # dname_norm
            THEN ExploreFromStopping(lines, i + 1, dname_norm, currency)
       ELSE IF w.raised THEN [raised |-> TRUE, results |-> <<>>]
       ELSE IF w.price # None /\ Get(w.price) > 10000
            THEN [raised |-> FALSE,
                  results |-> <<ExploreResult(
                                  [price |-> Get(w.price) \div 10,
                                   stops |-> w.stops,
                                   duration_min |-> w.duration_min,
                                   duration |-> w.duration],
                                  currency)>>]
       ELSE ExploreFromStopping(lines, i + 1, dname_norm, currency)

RECURSIVE ExploreFrom(_, _, _, _)
\* lines 107-166: the loop over the lines from line i on.  Window is the
\* inner loop over the lines i+j .. i+5 with the locals price, stops,
\* duration_min and duration_str; raised when float() raised.  A line
\* mentions the destination when one of its words normalizes to it.
ExploreFrom(lines, i, dname_norm, currency) ==
    LET RECURSIVE Window(_, _)
        Window(j, acc) ==
            IF j > 5 \/ i + j > Len(lines) \/ acc.raised THEN acc
            ELSE LET next_line == Strip(lines[i + j])
                     pm == PriceOfLine(next_line, currency)
                     st == StopsOfLine(next_line)
                     dm == DurationOfLine(next_line)
                 IN Window(j + 1,
                      IF pm # None /\ acc.price = None
                      THEN IF Get(pm) = None THEN [acc EXCEPT !.raised = TRUE]
                           ELSE [acc EXCEPT !.price = Get(pm)]
                      ELSE IF st # None THEN [acc EXCEPT !.stops = Get(st)]
                      ELSE IF \E k \in 1..Len(next_line) :
                                 Lower(next_line[k]) \in {"directo", "nonstop"}
                           THEN [acc EXCEPT !.stops = 0]
                      ELSE IF dm # None
                           THEN [acc EXCEPT
                                   !.duration_min = Get(dm).h * 60 + Get(dm).m,
                                   !.duration =
                                      ToString(Get(dm).h) \o "h"
                                      \o (IF Get(dm).m # 0
                                          THEN " " \o ToString(Get(dm).m) \o "m"
                                          ELSE "")]
                      ELSE acc)
        w == Window(1, [price |-> None, stops |-> 0, duration_min |-> 0,
                        duration |-> "", raised |-> FALSE])
    IN IF i > Len(lines) THEN [raised |-> FALSE, results |-> <<>>]
       ELSE IF \A k \in 1..Len(lines[i]) : normalize(lines[i][k]) # dname_norm
            THEN ExploreFrom(lines, i + 1, dname_norm, currency)
       ELSE IF w.raised THEN [raised |-> TRUE, results |-> <<>>]
       ELSE IF w.price # None /\ Get(w.price) > 10000
            THEN [raised |-> FALSE,
                  results |-> <<ExploreResult(
                                  [price |-> Get(w.price) \div 10,
                                   stops |-> w.stops,
                                   duration_min |-> w.duration_min,
                                   duration |-> w.duration],
                                  currency)>>]
       ELSE ExploreFrom(lines, i + 1, dname_norm, currency)

\* Variant of _extract_explore_data that looks for the destination name as
\* it is written in the configuration
extract_explore_data_verbatim(lines, destination_name, currency) ==
    ExploreFrom(lines, 1, destination_name, currency)

\* _extract_explore_data(page_text, destination_name, currency): the list
\* returned, or raised when an exception leaves the function
extract_explore_data(lines, destination_name, currency) ==
    ExploreFrom(lines, 1, normalize(destination_name), currency)

(***************************************************************************)
(* scrapers/train_scraper.py: _extract_renfe_results                       *)
(***************************************************************************)
\* re.match(r'^(\d{1,2}:\d{2})\s*h$', line): the time of a "07:14 h" line
TimeOfLine(line) ==
    LET n == Run(line, 1, Digits)
    IN IF /\ n \in {1, 2}
          /\ At(line, n + 1) = ":"
          /\ Run(line, n + 2, Digits) = 2
          /\ At(line, Skip(line, n + 4)) = "h"
          /\ Skip(line, n + 4) = Len(line)
       THEN Some(Join(SubSeq(line, 1, n + 3))) ELSE None

\* re.match(r'^(\d{1,3}(?:[.,]\d{2})?)\s*€$', line) and float() of the group
\* with its comma made a dot: the price in hundredths
RenfePrice(line) ==
    LET n == Run(line, 1, Digits)
        cents == At(line, n + 1) \in {".", ","}
                 /\ Run(line, n + 2, Digits) = 2
        e == IF cents THEN n + 4 ELSE n + 1
    IN IF /\ n \in 1..3
          /\ At(line, Skip(line, e)) = "€"
          /\ Skip(line, e) = Len(line)
       THEN Some(100 * Number(SubSeq(line, 1, n))
                 + (IF cents THEN Number(SubSeq(line, n + 2, n + 3)) ELSE 0))
       ELSE None

\* re.match(r'^(\d+)\s+horas?\s*(\d+)?\s*(minutos?)?$', line) and the text
\* made of it: "2h 22m", or "2h" without minutes
DurationPhrase(line) ==
    LET n == Run(line, 1, Digits)
        w == Skip(line, n + 1)
        s == Skip(line, w + 1)
        k == Run(line, s, Digits)
        t == Skip(line, s + k)
        h == Number(SubSeq(line, 1, n))
        m == Number(SubSeq(line, s, s + k - 1))
    IN IF /\ n > 0
          /\ w > n + 1
          /\ At(line, w) \in {"hora", "horas"}
          /\ \/ t = Len(line) + 1
             \/ t = Len(line) /\ line[t] \in {"minuto", "minutos"}
       THEN Some(ToString(h) \o "h"
                 \o (IF m # 0 THEN " " \o ToString(m) \o "m" ELSE ""))
       ELSE None

RECURSIVE SortByPrice(_)
\* list.sort(key=lambda x: x["price"]): ascending, equal prices keep their
\* order
SortByPrice(rows) ==
    IF rows = <<>> THEN <<>>
    ELSE LET low == CHOOSE k \in 1..Len(rows) :
                       \A m \in 1..Len(rows) :
                          \/ rows[k].price < rows[m].price
                          \/ rows[k].price = rows[m].price /\ k <= m
         IN <<rows[low]>>
            \o SortByPrice([m \in 1..(Len(rows) - 1) |->
                              IF m < low THEN rows[m] ELSE rows[m + 1]])

RECURSIVE RenfeFrom(_, _)
\* lines 95-153: the while loop from line i on.  Scan is the inner loop
\* over the lines j .. min(i + 13, len) with the locals duration, arr_time
\* and price; it ends at the first price line.
RenfeFrom(lines, i) ==
    LET RECURSIVE Scan(_, _)
        Scan(j, acc) ==
            IF j > i + 13 \/ j > Len(lines) THEN acc
            ELSE LET jline == Strip(lines[j])
                 IN IF Len(jline) = 1 /\ Lower(jline[1]) = "enlace"
                    THEN Scan(j + 1, acc)
                    ELSE IF DurationPhrase(jline) # None
                    THEN Scan(j + 1,
                              IF acc.duration = ""
                              THEN [acc EXCEPT
                                      !.duration = Get(DurationPhrase(jline))]
                              ELSE acc)
                    ELSE IF TimeOfLine(jline) # None /\ acc.arr_time = ""
                    THEN Scan(j + 1,
                              [acc EXCEPT !.arr_time = Get(TimeOfLine(jline))])
                    ELSE IF RenfePrice(jline) # None
                    THEN [acc EXCEPT !.price = RenfePrice(jline)]
                    ELSE Scan(j + 1, acc)
        dep_match == TimeOfLine(Strip(lines[i]))
        row == Scan(i + 1, [duration |-> "", arr_time |-> "", price |-> None])
    IN IF i > Len(lines) THEN <<>>
       ELSE IF dep_match = None THEN RenfeFrom(lines, i + 1)
       ELSE IF row.price # None /\ Get(row.price) > 500
               /\ Get(row.price) < 50000
            THEN <<Row(Get(row.price), "", Get(dep_match), row.arr_time,
                       row.duration)>>
                 \o RenfeFrom(lines, i + 1)
       ELSE RenfeFrom(lines, i + 1)

\* Variant of _extract_renfe_results without the final sort: the rows in the
\* order of the page
extract_renfe_results_unsorted(lines) == RenfeFrom(lines, 1)

\* _extract_renfe_results(text)
extract_renfe_results(lines) == SortByPrice(RenfeFrom(lines, 1))

(***************************************************************************)
(* scrapers/train_scraper.py: _extract_generic_prices                      *)
(***************************************************************************)
RECURSIVE PricesFrom(_, _)
\* re.finditer(r'(\d{1,3}(?:[.,]\d{2})?)\s*€', text) from position p on:
\* float() of group 1 of every match, in hundredths; re.search gives the
\* first of them.  A match starts at a digit with at most two more digits
\* behind it, takes the two decimals when they are there and the sign
\* follows them, and needs the sign after optional blanks.
PricesFrom(text, p) ==
    LET n(s) == Run(text, s, Digits)
        cents(s) == /\ At(text, s + n(s)) \in {".", ","}
                    /\ Run(text, s + n(s) + 1, Digits) >= 2
                    /\ At(text, Skip(text, s + n(s) + 3)) = "€"
        whole(s) == At(text, Skip(text, s + n(s))) = "€"
        starts == {s \in p..Len(text) :
                     n(s) \in 1..3 /\ (cents(s) \/ whole(s))}
    IN IF starts = {} THEN <<>>
       ELSE LET s == CHOOSE k \in starts : \A m \in starts : k <= m
                e == IF cents(s) THEN s + n(s) + 3 ELSE s + n(s)
            IN <<100 * Number(SubSeq(text, s, s + n(s) - 1))
                 + (IF cents(s)
                    THEN Number(SubSeq(text, s + n(s) + 1, s + n(s) + 2))
                    ELSE 0)>>
               \o PricesFrom(text, Skip(text, e) + 1)

RECURSIVE JoinLines(_)
\* "\n".join(lines)
JoinLines(lines) ==
    IF Len(lines) <= 1 THEN (IF lines = <<>> THEN <<>> ELSE lines[1])
    ELSE lines[1] \o <<"\n">> \o JoinLines(Tail(lines))

\* lines 177-181: the first train type of the list that the context names,
\* case ignored, "" when it names none
TrainTypeOf(context) ==
    LET types == <<"AVE", "ALVIA", "AVLO", "Talgo", "Intercity", "Regional",
                   "MD", "Avant">>
        named == {k \in 1..Len(types) :
                    \E c \in 1..Len(context) :
                       Lower(context[c]) = Lower(types[k])}
    IN IF named = {} THEN ""
       ELSE types[CHOOSE k \in named : \A m \in named : k <= m]

RECURSIVE TimesFrom(_, _)
\* re.findall(r'(\d{1,2}:\d{2})', context) from position p on
TimesFrom(context, p) ==
    LET two(s) == /\ Run(context, s, Digits) >= 2
                  /\ At(context, s + 2) = ":"
                  /\ Run(context, s + 3, Digits) >= 2
        one(s) == /\ Run(context, s, Digits) >= 1
                  /\ At(context, s + 1) = ":"
                  /\ Run(context, s + 2, Digits) >= 2
        starts == {s \in p..Len(context) : two(s) \/ one(s)}
    IN IF starts = {} THEN <<>>
       ELSE LET s == CHOOSE k \in starts : \A m \in starts : k <= m
                e == IF two(s) THEN s + 4 ELSE s + 3
            IN <<Join(SubSeq(context, s, e))>> \o TimesFrom(context, e + 1)

\* re.search(r'(\d{1,2})\s*h\s*(\d{1,2})?\s*m', context) and the text made
\* of the first match, "" when there is none; a blank may be a line break
DurationIn(context) ==
    LET n(s) == Run(context, s, Digits)
        u(s) == Skip(context, s + n(s))
        v(s) == Skip(context, u(s) + 1)
        k(s) == Run(context, v(s), Digits)
        starts == {s \in 1..Len(context) :
                     /\ n(s) \in {1, 2}
                     /\ At(context, u(s)) = "h"
                     /\ k(s) <= 2
                     /\ At(context, Skip(context, v(s) + k(s))) \in MWords}
    IN IF starts = {} THEN ""
       ELSE LET s == CHOOSE c \in starts : \A m \in starts : c <= m
                h == Number(SubSeq(context, s, s + n(s) - 1))
                m == Number(SubSeq(context, v(s), v(s) + k(s) - 1))
            IN ToString(h) \o "h"
               \o (IF m # 0 THEN " " \o ToString(m) \o "m" ELSE "")

\* _extract_generic_prices(text): a row per line with a price from 5 to 500,
\* described by the lines i-3 .. i+3 around it; when no line gave a row, up
\* to five rows of the distinct prices of the whole text strictly between
\* 5 and 500, lowest first; the rows sorted by price
extract_generic_prices(lines) ==
    LET RECURSIVE PerLine(_)
        PerLine(i) ==
            IF i > Len(lines) THEN <<>>
            ELSE LET pm == PricesFrom(Strip(lines[i]), 1)
                     lo == IF i > 3 THEN i - 3 ELSE 1
                     hi == IF i + 3 < Len(lines) THEN i + 3 ELSE Len(lines)
                     context == JoinLines(SubSeq(lines, lo, hi))
                     times == TimesFrom(context, 1)
                 IN IF pm = <<>> \/ pm[1] < 500 \/ pm[1] > 50000
                    THEN PerLine(i + 1)
                    ELSE <<Row(pm[1], TrainTypeOf(context),
                               IF Len(times) > 0 THEN times[1] ELSE "",
                               IF Len(times) > 1 THEN times[2] ELSE "",
                               DurationIn(context))>>
                         \o PerLine(i + 1)
        found == PricesFrom(JoinLines(lines), 1)
        raw_prices == {found[k] : k \in 1..Len(found)} \cap 501..49999
        RECURSIVE Sorted(_)
        Sorted(ps) ==
            IF ps = {} THEN <<>>
            ELSE LET low == CHOOSE p \in ps : \A q \in ps : p <= q
                 IN <<Row(low, "", "", "", "")>> \o Sorted(ps \ {low})
        cheapest == Sorted(raw_prices)
    IN SortByPrice(IF PerLine(1) # <<>> THEN PerLine(1)
                   ELSE SubSeq(cheapest, 1,
                               IF Len(cheapest) > 5 THEN 5 ELSE Len(cheapest)))

(***************************************************************************)
(* Specification of the extractors on the text of one page                *)
(***************************************************************************)
\* Lines an Explore page can show: the destination, prices in the euro and
\* in the dollar notation (one of them not above 10, one with no digit),
\* stops, a duration and another place
FlightLines ==
    {<<"Ciudad de México">>,
     <<"1", ".", "1", "9", "7", " ", "€">>,
     <<"8", "9", "0", " ", "€">>,
     <<" ", "5", " ", "€">>,
     <<".", " ", "€">>,
     <<"$", "1", ",", "1", "9", "7", ".", "0", "0">>,
     <<"1", " ", "escala">>,
     <<"1", "1", " ", "h", " ", "3", "0", " ", "m">>,
     <<"Oslo">>}

\* Lines a results page of a train provider can show: two times, a trip
\* duration, prices (one above 500), the connection marker and a line that
\* names a train type and a duration in the short notation
TrainLines ==
    {<<"0", "7", ":", "1", "4", " ", "h">>,
     <<"0", "9", ":", "3", "6", " ", "h">>,
     <<"2", " ", "horas", " ", "2", "2", " ", "minutos">>,
     <<"3", "4", ",", "7", "0", " ", "€">>,
     <<"2", "5", " ", "€">>,
     <<"Enlace">>,
     <<"6", "0", "0", " ", "€">>,
     <<"AVE", " ", "2", " ", "h", " ", "5", " ", "m">>}

RECURSIVE Pages(_, _)
\* the pages of at most n lines of a vocabulary, the text "" being the page
\* of the one empty line
Pages(vocabulary, n) ==
    IF n = 0 THEN {<<<<>>>>}
    ELSE Pages(vocabulary, n - 1)
         \cup {<<l>> : l \in vocabulary}
         \cup {Append(p, l) : p \in {q \in Pages(vocabulary, n - 1) :
                                         Len(q) = n - 1 /\ q # <<<<>>>>},
                              l \in vocabulary}

\* The pages of an Explore tab: the short pages, the pages of two
\* destination lines with a line after each, and a destination line, g
\* other lines and a price line (the price up to 6 lines behind it)
FlightPages ==
    Pages(FlightLines, MaxLines)
    \cup {<<<<"Ciudad de México">>, a, <<"Ciudad de México">>, b>> :
             a \in FlightLines, b \in FlightLines}
    \cup {<<<<"Ciudad de México">>>> \o [k \in 1..g |-> <<"Oslo">>]
          \o <<<<"1", ".", "1", "9", "7", " ", "€">>>> : g \in 0..5}

\* the same for a results page, with the pages of a departure time and three
\* lines after it, and the page of a price and its sign on two lines
TrainPages ==
    Pages(TrainLines, MaxLines)
    \cup {<<<<"0", "7", ":", "1", "4", " ", "h">>, a, b, c>> :
             a \in TrainLines, b \in TrainLines, c \in TrainLines}
    \cup {<<<<"0", "7", ":", "1", "4", " ", "h">>>>
          \o [k \in 1..g |-> <<"Precio", " ", "desde">>]
          \o <<<<"3", "4", ",", "7", "0", " ", "€">>>> : g \in 0..13}
    \cup {<<<<"3", "4">>, <<"€">>>>}

\* _scrape_single, lines 187-192: the text of the page is handed to
\* _extract_explore_data with the currency of the profile
ExtractExplore ==
    /\ pc = "explore_page"
    /\ LET flights == extract_explore_data(page_text, route.destination_name,
                                           GEO_PROFILES[geo_idx + 1].currency)
       IN /\ results' = flights.results
          /\ data' = IF flights.results # <<>>
                     THEN Some(flights.results[1]) ELSE None
          /\ pc' = IF flights.raised THEN "crashed" ELSE "explored"
    /\ UNCHANGED <<today, page_text, route, mainVars, geoVars, week_idx,
                   cabin_idx, next_monday, calls, qlog, files, signals,
                   clock>>

\* Variant of _scrape_renfe that estimates the premium price on the first
\* row of the list itself (no copy): the list is changed with it
ExtractRenfeInPlace ==
    /\ pc = "renfe_page"
    /\ data' = TierSelect(extract_renfe_results(page_text),
                          route.classes[cabin_idx + 1])
    /\ results' = IF data' = None THEN <<>>
                  ELSE [extract_renfe_results(page_text) EXCEPT ![1] = Get(data')]
    /\ pc' = "renfe_parsed"
    /\ UNCHANGED <<today, page_text, route, mainVars, geoVars, week_idx,
                   cabin_idx, next_monday, calls, qlog, files, signals,
                   clock>>

\* _scrape_renfe, lines 323-340: the text of the results page is handed to
\* _extract_renfe_results, and the cabin picks what is returned
ExtractRenfe ==
    /\ pc = "renfe_page"
    /\ results' = extract_renfe_results(page_text)
    /\ data' = TierSelect(results', route.classes[cabin_idx + 1])
    /\ pc' = "renfe_parsed"
    /\ UNCHANGED <<today, page_text, route, mainVars, geoVars, week_idx,
                   cabin_idx, next_monday, calls, qlog, files, signals,
                   clock>>

\* _scrape_trainline and _scrape_omio, lines 397-405 and 456-464: the text
\* of the page is handed to _extract_generic_prices
ExtractGeneric ==
    /\ pc = "generic_page"
    /\ results' = extract_generic_prices(page_text)
    /\ data' = TierSelect(results', route.classes[cabin_idx + 1])
    /\ pc' = "generic_parsed"
    /\ UNCHANGED <<today, page_text, route, mainVars, geoVars, week_idx,
                   cabin_idx, next_monday, calls, qlog, files, signals,
                   clock>>

TextInit ==
    /\ today = 0
    /\ pc \in {"explore_page", "renfe_page", "generic_page"}
    /\ IF pc = "explore_page"
       THEN /\ route = FlightRouteOf(<<"economy", "business">>,
                                     DefaultFlightAlerts, 1)
            /\ page_text \in FlightPages
            /\ geo_idx \in {0, 1}
            /\ cabin_idx = 0
       ELSE /\ route = TrainRouteOf("MAD-OUR", "Ourense", "OUREN",
                                    <<"turista", "preferente">>,
                                    [k \in {"turista_max", "preferente_max"} |->
                                        IF k = "turista_max" THEN 3000
                                        ELSE 6000], 1)
            /\ page_text \in TrainPages
            /\ geo_idx = 0
            /\ cabin_idx \in {0, 1}
    /\ week_idx = 0
    /\ next_monday = NextMonday(today)
    /\ data = None
    /\ calls = <<>>
    /\ qlog = <<>>
    /\ results = <<>>
    /\ files = [t \in {"flight", "train"} |-> NoFile]
    /\ signals = <<>>
    /\ clock = 1
    /\ best_price_eur = None
    /\ best_result = None
    /\ best_geo = None
    /\ query = None
    /\ MainIdle

TextNext ==
    \/ ExtractExplore
    \/ ExtractRenfe
    \/ ExtractGeneric

SpecText == TextInit /\ [][TextNext]_vars

(***************************************************************************)
(* Properties of the train provider fallback (SpecTrain)                   *)
(***************************************************************************)
ProviderOrder == <<"Renfe", "Trainline", "Omio">>
FailureKinds == {"error", "form incomplete", "unexpected URL"}
ReturnedPrice(c) == c.ret # None /\ Get(c.ret).price # 0

\* the query whose provider calls are in `calls` has had its observation
\* appended
QueryClosed ==
    /\ pc \in {"renfe", "log_train_results", "check_train_alerts", "done"}
    /\ calls # <<>>
ScanReturned == pc \in {"log_train_results", "check_train_alerts", "done"}

\* C1: within one (date, cabin) query the providers are invoked in the order
\* Renfe, Trainline, Omio, each at most once; a provider is invoked only if
\* every provider before it returned no price; and the query ends without a
\* price only after all three were invoked.
C1_ProvidersInOrderUntilFirstPrice ==
    /\ Len(calls) <= 3
    /\ \A i \in 1..Len(calls) : calls[i].provider = ProviderOrder[i]
    /\ \A i \in 2..Len(calls) :
          \A k \in 1..(i - 1) : ~ReturnedPrice(calls[k])
    /\ (QueryClosed /\ ~ReturnedPrice(Last(calls))) => Len(calls) = 3

\* a query that stopped at Trainline: Renfe had no price, Omio was not invoked
C1_Witness ==
    /\ QueryClosed
    /\ Len(calls) = 2
    /\ ReturnedPrice(calls[2])

\* C2: every query contributes exactly one observation, priced if and only
\* if some provider returned a price; the observations are in week-major
\* order, one per (travel date, cabin), and the scan returns
\* weeks x |classes| of them.
C2_OneObservationPerQuery ==
    LET n == Len(route.classes)
    IN /\ pc # "crashed"
       /\ pc # "scrape_train_route" => Len(results) = week_idx * n + cabin_idx
       /\ \A k \in 1..Len(results) :
             /\ results[k].travel_date = next_monday + 7 * ((k - 1) \div n)
             /\ results[k].week_start = results[k].travel_date
             /\ results[k].cabin_class = Upper(route.classes[((k - 1) % n) + 1])
       /\ QueryClosed =>
             (Last(results).price # None
                <=> \E i \in 1..Len(calls) : ReturnedPrice(calls[i]))
       /\ ScanReturned => Len(results) = route.weeks * n

\* a finished scan of 2 weeks x 2 cabins with priced and unpriced queries
C2_Witness ==
    /\ pc = "done"
    /\ Len(results) = 4
    /\ \E k \in 1..4 : results[k].price # None
    /\ \E k \in 1..4 : results[k].price = None

\* C3: when all three providers return no price the query's observation is
\* still appended, with price absent, and log_results writes it as a row of
\* the train file whose price and currency cells are empty; nothing is
\* raised.
C3_ExhaustedQueryPersisted ==
    /\ pc # "crashed"
    /\ (QueryClosed /\ \A i \in 1..Len(calls) : ~ReturnedPrice(calls[i]))
          => /\ Len(calls) = 3
             /\ Last(results).price = None
    /\ pc \in {"check_train_alerts", "done"} =>
          LET lines == files["train"].lines
              off == Len(lines) - Len(results)
          IN \A k \in 1..Len(results) :
                /\ off >= 1
                /\ lines[off + k][1] = ToString(results[k].timestamp)
                /\ lines[off + k][2] = results[k].route_id
                /\ lines[off + k][3] = "train"
                /\ lines[off + k][4] = results[k].cabin_class
                /\ lines[off + k][14] = ToString(results[k].travel_date)
                /\ results[k].price = None =>
                      lines[off + k][5] = "" /\ lines[off + k][6] = ""
                /\ results[k].price # None =>
                      /\ lines[off + k][5] = ToString(Get(results[k].price))
                      /\ lines[off + k][6] = "EUR"

\* the run ended after a query on which Renfe, Trainline and Omio all had no
\* price, and the last row of the train file has an empty price
C3_Witness ==
    /\ pc = "done"
    /\ Len(calls) = 3
    /\ \A i \in 1..3 : ~ReturnedPrice(calls[i])
    /\ Last(files["train"].lines)[5] = ""
    /\ Last(files["train"].lines)[6] = ""

Usable ==
    {i \in 1..Len(calls) :
        calls[i].ret # None /\ Get(calls[i].ret).price_eur > 10000}

\* C6: the observation returned for a flight query carries the minimum
\* EUR-converted price over the profile results above 100 EUR, with the
\* stops, duration and airline of the result that produced it; results at or
\* below 100 EUR are ignored; a priced observation has price > 100 and
\* currency EUR; ES 450 EUR against US 410 USD selects US at 377.20 EUR.
C6_GeoMinimumAboveFloor ==
    pc = "done" =>
       LET obs == Last(results)
       IN /\ Usable = {} => obs.price = None
          /\ Usable # {} =>
                \E i \in Usable :
                   /\ \A k \in Usable : Get(calls[i].ret).price_eur
                                           <= Get(calls[k].ret).price_eur
                   /\ obs.price = Some(Get(calls[i].ret).price_eur)
                   /\ obs.stops = Get(calls[i].ret).stops
                   /\ obs.duration = Get(calls[i].ret).duration
                   /\ obs.airline = Get(calls[i].ret).airline
                   /\ best_geo = Some(calls[i].provider)
          /\ obs.price # None => Get(obs.price) > 10000 /\ obs.currency = "EUR"
          /\ (/\ calls[1].ret # None /\ Get(calls[1].ret).price = 45000
              /\ calls[2].ret # None /\ Get(calls[2].ret).price = 41000
              /\ \A i \in 3..Len(calls) : calls[i].ret = None)
             => /\ obs.price = Some(37720)
                /\ best_geo = Some("US")
                /\ obs.stops = 0

\* ES found 450 EUR, US found 410 USD, the other profiles nothing, and the
\* observation carries 377.20 EUR
C6_Witness ==
    /\ pc = "done"
    /\ calls[1].ret # None /\ Get(calls[1].ret).price = 45000
    /\ calls[2].ret # None /\ Get(calls[2].ret).price = 41000
    /\ \A i \in 3..Len(calls) : calls[i].ret = None
    /\ Last(results).price = Some(37720)

C7_StateOK ==
    /\ pc # "crashed"
    /\ \A i \in 1..Len(calls) :
          /\ calls[i].provider = GEO_PROFILES[i].id
          /\ calls[i].kind = "error" => calls[i].ret = None
          /\ (calls[i].kind = "error" \/ calls[i].late_error) =>
                \E j \in 1..Len(qlog) : qlog[j] = Line(calls[i].provider, "error")
    /\ pc \in {"geo_return", "done"} => Len(calls) = Len(GEO_PROFILES)
    /\ pc = "done" => /\ Len(results) = 1
                      /\ Usable = {} => Last(results).price = None
                      /\ Usable # {} => Last(results).price = best_price_eur

C7_BestKept ==
    /\ best_price_eur # None =>
          /\ best_price_eur' # None
          /\ Get(best_price_eur') <= Get(best_price_eur)
    /\ (Len(calls') > Len(calls) /\ Last(calls').ret = None) =>
          UNCHANGED <<best_price_eur, best_result, best_geo>>

\* C7: a failure in one geo profile is caught and a line naming the profile
\* is printed; every profile is still tried; a best price found earlier is
\* never lost or raised by a later profile; and when no profile yields a
\* usable price the query returns an unpriced observation.
C7_GeoFailureIsolated == []C7_StateOK /\ [][C7_BestKept]_vars

\* ES found 450 EUR, every later profile raised, and 450 EUR is returned
C7_Witness ==
    /\ pc = "done"
    /\ calls[1].ret # None
    /\ \A i \in 2..Len(calls) : calls[i].kind = "error"
    /\ Last(results).price = Some(45000)

(***************************************************************************)
(* Properties of the alert evaluator (SpecAlerts)                          *)
(***************************************************************************)
\* the threshold configured for a cabin, 9999 EUR when there is none
Threshold(cabin) ==
    IF (cabin \o "_max") \in DOMAIN route.alerts
    THEN route.alerts[cabin \o "_max"] ELSE 999900

\* the priced observations of a cabin in the batch
PricedOf(cabin) ==
    {i \in 1..Len(results) :
        /\ results[i].price # None
        /\ Get(results[i].price) > 0
        /\ results[i].cabin_class = Upper(cabin)}

IsCheapestOf(obs, cabin) ==
    \E i \in PricedOf(cabin) :
       /\ obs = results[i]
       /\ \A k \in PricedOf(cabin) :
             Get(results[i].price) <= Get(results[k].price)

\* C8: every evaluation emits, for each monitored cabin with a priced
\* observation, exactly one signal about a cheapest priced observation of
\* that cabin, a buy if and only if its price is at most the cabin's
\* threshold and a gap otherwise; cabins without a priced observation and
\* unpriced observations yield nothing; with economy_max = 800 and economy
\* observations {750, 820, absent} the signal is a buy citing 750.
C8_BuyIffMinimumAtMostThreshold ==
    \A e \in 1..Len(signals) :
       LET sig == signals[e]
       IN /\ \A j \in 1..Len(sig) :
                \E ci \in 1..Len(route.classes) : sig[j].cabin = route.classes[ci]
          /\ \A ci \in 1..Len(route.classes) :
                LET c == route.classes[ci]
                    S == {j \in 1..Len(sig) : sig[j].cabin = c}
                IN /\ PricedOf(c) = {} => S = {}
                   /\ PricedOf(c) # {} =>
                         /\ Cardinality(S) = 1
                         /\ \A j \in S :
                               /\ IsCheapestOf(sig[j].best, c)
                               /\ sig[j].kind \in {"buy", "gap"}
                               /\ sig[j].kind = "buy"
                                     <=> Get(sig[j].best.price) <= Threshold(c)
          /\ (/\ Threshold("economy") = 80000
              /\ {Get(results[i].price) : i \in PricedOf("economy")}
                    = {75000, 82000}
              /\ \E i \in 1..Len(results) :
                    results[i].cabin_class = "ECONOMY" /\ results[i].price = None)
             => \E j \in 1..Len(sig) :
                   /\ sig[j].kind = "buy"
                   /\ sig[j].cabin = "economy"
                   /\ sig[j].best.price = Some(75000)

\* economy observations 750, 820 and an unpriced one were evaluated against
\* 800: a buy citing 750; business, priced only above its threshold, a gap
C8_Witness ==
    /\ Len(signals) >= 1
    /\ Threshold("economy") = 80000
    /\ {Get(results[i].price) : i \in PricedOf("economy")} = {75000, 82000}
    /\ \E i \in 1..Len(results) :
          results[i].cabin_class = "ECONOMY" /\ results[i].price = None
    /\ \E j \in 1..Len(signals[1]) :
          signals[1][j].kind = "buy" /\ signals[1][j].best.price = Some(75000)
    /\ \E j \in 1..Len(signals[1]) :
          signals[1][j].kind = "gap" /\ signals[1][j].cabin = "business"

\* C9 as stated: a gap signal carries threshold minus price.
C9_GapIsThresholdMinusPrice ==
    \A e \in 1..Len(signals) :
       \A j \in 1..Len(signals[e]) :
          signals[e][j].kind = "gap" =>
             signals[e][j].diff
                = Threshold(signals[e][j].cabin) - Get(signals[e][j].best.price)

\* C9 (amended): when the cabin's cheapest priced observation is above the
\* threshold, the gap signal carries price minus threshold, the positive
\* amount by which the price exceeds the threshold.
C9_GapIsPriceMinusThreshold ==
    \A e \in 1..Len(signals) :
       \A j \in 1..Len(signals[e]) :
          signals[e][j].kind = "gap" =>
             /\ IsCheapestOf(signals[e][j].best, signals[e][j].cabin)
             /\ signals[e][j].threshold = Threshold(signals[e][j].cabin)
             /\ signals[e][j].diff
                   = Get(signals[e][j].best.price) - Threshold(signals[e][j].cabin)
             /\ signals[e][j].diff > 0

\* a train batch whose cheapest turista price, 34.70, is 4.70 above the
\* threshold of 30
C9_Witness ==
    /\ Len(signals) >= 1
    /\ \E j \in 1..Len(signals[1]) :
          /\ signals[1][j].kind = "gap"
          /\ signals[1][j].cabin = "turista"
          /\ signals[1][j].best.price = Some(3470)
          /\ signals[1][j].diff = 470

C10_SameSignals ==
    \A k, l \in 1..Len(signals) : signals[k] = signals[l]

C10_EvaluationReadsOnly ==
    pc \in {"check_flight_alerts", "check_train_alerts"} =>
       UNCHANGED <<results, route, files>>

StoreTypes == {"flight", "train"}
IsPrefix(a, b) == Len(a) <= Len(b) /\ SubSeq(b, 1, Len(a)) = a
TypeOf(rt) == IF IsFlightRoute(rt) THEN "flight" ELSE "train"

\* every line of rows is a line of the file of transport type t
InStore(t, rows) ==
    \A i \in 1..Len(rows) :
       \E k \in 1..Len(files[t].lines) : files[t].lines[k] = rows[i]

\* C11: the history store is append-only.  In every step of main() -- the
\* migration, a log_results call, the read_history calls of the dashboard,
\* every step of run_check -- a file that existed still exists, and the
\* lines it had are still its first lines, unchanged and in the same order;
\* whatever a step writes comes after them.
C11_StoreAppendOnly ==
    [][\A t \in StoreTypes :
          /\ files[t].exists => files'[t].exists
          /\ IsPrefix(files[t].lines, files'[t].lines)]_vars

\* a second run_check has been through its routes, and the train file still
\* starts with the row of the earlier run, the rows of both runs after it
C11_Witness ==
    /\ runs = 2
    /\ pc = "generate_dashboard"
    /\ Len(files["train"].lines) >= 4
    /\ files["train"].lines[2] = OldTrainRow
    /\ history # <<>>

MigrateStep == pc \in {"main", "stopped"} /\ pc' = "migrated"

\* the rows of prices.csv as flight rows of route VGO-MEX: timestamp, price,
\* currency, airline, stops and duration carried over, the cabin taken from
\* the cabin column (ECONOMY when there is none), the other cells empty
IsImportOf(lines, old) ==
    /\ Len(lines) = Len(old.rows) + 1
    /\ lines[1] = CSV_HEADERS
    /\ \A i \in 1..Len(old.rows) :
          LET cell(key) == CellGet(old.header, old.rows[i], key, "")
              row == lines[i + 1]
          IN /\ Len(row) = Len(CSV_HEADERS)
             /\ row[1] = cell("timestamp")
             /\ row[2] = "VGO-MEX"
             /\ row[3] = "flight"
             /\ row[4] = (IF "cabin" \in {old.header[j] : j \in 1..Len(old.header)}
                          THEN cell("cabin") ELSE "ECONOMY")
             /\ row[5] = cell("price")
             /\ row[6] = cell("currency")
             /\ row[7] = cell("airline")
             /\ row[8] = cell("stops")
             /\ row[9] = cell("duration")
             /\ \A c \in 10..14 : row[c] = ""

\* C12: migrate_old_csv is one-time and idempotent.  A call changes the
\* store only when the flight file does not exist yet (and prices.csv has
\* rows), and then the flight file becomes the header line followed by the
\* imported rows while the train file is untouched; when the flight file
\* exists the call leaves the store as it is; and after any call a further
\* call would leave the store exactly as the call left it.
C12_MigrationOnce ==
    [][MigrateStep =>
         /\ files["flight"].exists => files' = files
         /\ files' # files =>
               /\ ~files["flight"].exists
               /\ old_csv.exists /\ old_csv.rows # <<>>
               /\ files'["flight"].exists
               /\ IsImportOf(files'["flight"].lines, old_csv)
               /\ files'["train"] = files["train"]
         /\ (~files["flight"].exists /\ old_csv.exists /\ old_csv.rows # <<>>)
               => files' # files
         /\ migrate_old_csv(old_csv', files') = files']_vars

\* main() has been started a second time after a run, prices.csv has rows,
\* and the flight file is still the import of the first start followed by
\* the rows of the run
C12_Witness ==
    /\ pc = "migrated"
    /\ runs = 1
    /\ old_csv.rows # <<>>
    /\ files["flight"].exists
    /\ Len(files["flight"].lines) > Len(old_csv.rows) + 1
    /\ IsImportOf(SubSeq(files["flight"].lines, 1, Len(old_csv.rows) + 1),
                  old_csv)

\* the run was interrupted inside the scan of `route`: the route has no
\* entry in the dicts of the run
InterruptedScan ==
    /\ pc = "stopped"
    /\ \A i \in 1..Len(run_results) : run_results[i].id # route.id

\* each file that exists is one header line followed by rows of as many
\* cells as the header has
StoreWellFormed ==
    \A t \in StoreTypes :
       files[t].exists =>
          /\ files[t].lines # <<>>
          /\ files[t].lines[1] = CSV_HEADERS
          /\ \A k \in 2..Len(files[t].lines) :
                /\ Len(files[t].lines[k]) = Len(CSV_HEADERS)
                /\ files[t].lines[k] # CSV_HEADERS

\* C13 as stated: when the run is interrupted between two queries of a
\* route scan, the store is well formed and contains the rows of the
\* queries of that route completed so far.
C13_InterruptKeepsCompletedQueries ==
    InterruptedScan =>
       /\ StoreWellFormed
       /\ InStore(TypeOf(route), RowsOf(results))

\* C13: the observations of a route are kept in memory and appended in one
\* batch after the scan of the route has returned.  No step of a scan and
\* no interruption writes to the store; so when the run is interrupted
\* between two queries of a route scan the store is well formed, contains
\* the rows of every route the run had completed, and none of the rows of
\* the queries of the interrupted route.
C13_InterruptLosesRouteInProgress ==
    /\ [](StoreWellFormed
          /\ \A i \in 1..Len(run_results) :
                InStore(TypeOf(Scheduled[i]), RowsOf(run_results[i].results)))
    /\ [](InterruptedScan =>
             \A i \in 1..Len(results) :
                ~InStore(TypeOf(route), <<to_csv_row(results[i])>>))
    /\ [][(pc \in {"scrape_flight_route", "flight_query",
                   "scrape_train_route", "renfe", "append"})
             => files' = files]_vars

\* a second run was interrupted in a route scan after at least one query
\* had completed; the store has the rows of the first run
C13_Witness ==
    /\ InterruptedScan
    /\ runs = 2
    /\ Len(results) >= 1
    /\ \E t \in StoreTypes : Len(files[t].lines) >= 2

\* the launch of the browser failed: scrape_flight_route printed the error
\* and returned the empty list
LaunchFailed ==
    IsFlightRoute(route) /\ qlog = <<Line("scan", "Error scraping flights")>>

\* the k-th observation of a completed scan is the one of the k-th
\* (week, cabin) pair of the route
IsObservationOfQuery(r, rt, k) ==
    LET n == Len(rt.classes)
    IN /\ r.route_id = rt.id
       /\ r.cabin_class = Upper(rt.classes[((k - 1) % n) + 1])
       /\ r.travel_date = NextMonday(today) + 7 * ((k - 1) \div n)

B64Value(c) ==
    IF 65 <= c /\ c <= 90 THEN c - 65
    ELSE IF 97 <= c /\ c <= 122 THEN c - 71
    ELSE IF 48 <= c /\ c <= 57 THEN c + 4
    ELSE IF c = 45 THEN 62 ELSE 63

RECURSIVE B64Decode(_)
\* the bytes an unpadded base64 text stands for
B64Decode(s) ==
    IF Len(s) < 2 THEN <<>>
    ELSE LET v(i) == IF i <= Len(s) THEN B64Value(s[i]) ELSE 0
         IN <<v(1) * 4 + (v(2) \div 16)>>
            \o (IF Len(s) >= 3 THEN <<(v(2) % 16) * 16 + (v(3) \div 4)>>
                ELSE <<>>)
            \o (IF Len(s) >= 4 THEN <<(v(3) % 4) * 64 + v(4)>> ELSE <<>>)
            \o (IF Len(s) > 4 THEN B64Decode(SubSeq(s, 5, Len(s))) ELSE <<>>)

RECURSIVE ReadVarint(_, _)
\* the varint that starts at position p, and the position after it
ReadVarint(b, p) ==
    IF b[p] < 128 THEN [value |-> b[p], next |-> p + 1]
    ELSE LET r == ReadVarint(b, p + 1)
         IN [value |-> (b[p] - 128) + 128 * r.value, next |-> r.next]

RECURSIVE ParseFields(_, _)
\* the fields of a protobuf message, read from position p on: varint
\* fields with their value, length-delimited fields with their bytes
ParseFields(b, p) ==
    IF p > Len(b) THEN <<>>
    ELSE LET tag == ReadVarint(b, p)
             v == ReadVarint(b, tag.next)
         IN IF tag.value % 8 = 0
            THEN <<[field |-> tag.value \div 8, wire |-> 0, value |-> v.value,
                    bytes |-> <<>>]>>
                 \o ParseFields(b, v.next)
            ELSE <<[field |-> tag.value \div 8, wire |-> tag.value % 8,
                    value |-> v.value,
                    bytes |-> SubSeq(b, v.next, v.next + v.value - 1)]>>
                 \o ParseFields(b, v.next + v.value)

\* C15: build_explore_tfs is pure and writes a fixed layout.  Every token
\* built for the query -- one per geo profile, from the same arguments --
\* is the same text without padding; decoded, it is a message whose fields
\* are 1, 2, 3, 3, 8, 9, 14, 16, 19, 22 in this order, the first field 3
\* carrying the departure date and the second the return date, field 8 the
\* passenger count 1, and field 9 the cabin: 1 for "economy", 3 for any
\* other cabin.
C15_TfsFieldsInFixedOrder ==
    \A i \in 1..Len(calls) :
       LET tok == calls[i].ret
           fields == ParseFields(B64Decode(tok.tfs), 1)
           q == Get(query)
       IN /\ ~tok.raised
          /\ \A k \in 1..Len(tok.tfs) : tok.tfs[k] # 61
          /\ [k \in 1..Len(fields) |-> fields[k].field]
                = <<1, 2, 3, 3, 8, 9, 14, 16, 19, 22>>
          /\ ParseFields(fields[3].bytes, 1)[1]
                = [field |-> 2, wire |-> 2, value |-> 10,
                   bytes |-> Strftime(q.dep_date)]
          /\ ParseFields(fields[4].bytes, 1)[1]
                = [field |-> 2, wire |-> 2, value |-> 10,
                   bytes |-> Strftime(q.ret_date)]
          /\ fields[5].wire = 0 /\ fields[5].value = 1
          /\ fields[6].wire = 0
          /\ fields[6].value = (IF q.cabin = "economy" THEN 1 ELSE 3)
          /\ \A j \in 1..Len(calls) : calls[j].ret = tok

\* the token has been built for every profile of a query for a cabin that
\* is neither "economy" nor "business"
C15_Witness ==
    /\ Len(calls) = Len(GEO_PROFILES)
    /\ Get(query).cabin = "first"
    /\ calls[1].ret.tfs # <<>>

\* a geo token is a knowledge-graph id: "/m/" followed by the id
ValidGeo(s) ==
    /\ Len(CodePoints(s)) > 3
    /\ SubSeq(CodePoints(s), 1, 3) = <<47, 109, 47>>

\* C16 as stated: a call of build_explore_tfs with a cabin that is not one
\* of the cabins of the program, or with a geo token that is not a token,
\* raises instead of returning a token.
C16_EncoderMisuseRaises ==
    \A i \in 1..Len(calls) :
       (\/ Get(query).cabin \notin {"economy", "business"}
        \/ ~ValidGeo(route.origin_geo)
        \/ ~ValidGeo(route.destination_geo))
          => calls[i].ret.raised

(***************************************************************************)
(* Properties of the flight extractor (SpecText)                           *)
(***************************************************************************)
\* the currency the page was requested in
PageCurrency == GEO_PROFILES[geo_idx + 1].currency

\* the lines of the page that mention the destination of the route
DestLines ==
    {i \in 1..Len(page_text) :
        \E k \in 1..Len(page_text[i]) :
           normalize(page_text[i][k]) = normalize(route.destination_name)}

\* the lines of the window of line i that carry a price token, and those of
\* them whose token parses
Tagged(i) ==
    {j \in (i + 1)..(i + 5) :
        /\ j <= Len(page_text)
        /\ PriceOfLine(Strip(page_text[j]), PageCurrency) # None}
Parseable(i) ==
    {j \in Tagged(i) :
        Get(PriceOfLine(Strip(page_text[j]), PageCurrency)) # None}

Least(S) == CHOOSE k \in S : \A m \in S : k <= m

\* the amount, in thousandths, of the price token of line j
AmountOf(j) == Get(Get(PriceOfLine(Strip(page_text[j]), PageCurrency)))

\* the destination lines whose first price token parses to more than 10
Winners ==
    {i \in DestLines :
        /\ Tagged(i) # {}
        /\ Least(Tagged(i)) \in Parseable(i)
        /\ AmountOf(Least(Tagged(i))) > 10000}

TimeLines ==
    {i \in 1..Len(page_text) : TimeOfLine(Strip(page_text[i])) # None}

\* the page of the structured example: departure, duration, arrival, price
StructuredExample ==
    <<<<"0", "7", ":", "1", "4", " ", "h">>,
      <<"2", " ", "horas", " ", "2", "2", " ", "minutos">>,
      <<"0", "9", ":", "3", "6", " ", "h">>,
      <<"3", "4", ",", "7", "0", " ", "€">>>>

\* C18: on the page "07:14 h", "2 horas 22 minutos", "09:36 h", "34,70 €"
\* _extract_renfe_results yields exactly one candidate, 34.70 leaving at
\* 07:14, arriving at 09:36 after 2h 22m; and on every page the line a row
\* took as its arrival starts no row of its own, so the rows and their
\* arrivals are all different time lines.
C18_ArrivalLineStartsNoRow ==
    pc = "renfe_parsed" =>
       /\ page_text = StructuredExample =>
             results = <<Row(3470, "", "07:14", "09:36", "2h 22m")>>
       /\ Len(results)
          + Cardinality({k \in 1..Len(results) : results[k].arrival_time # ""})
          <= Cardinality(TimeLines)

\* the price tokens of the page that parse, in the currency of the page for
\* an Explore page
NoParseablePrice ==
    IF pc \in {"explored", "crashed"}
    THEN \A j \in 1..Len(page_text) :
            LET pm == PriceOfLine(Strip(page_text[j]), PageCurrency)
            IN pm = None \/ Get(pm) = None
    ELSE PricesFrom(JoinLines(page_text), 1) = <<>>

\* C19: on a page with no parseable price each of the three extractors
\* returns the empty list and does not raise, whatever the text (the empty
\* text and a marker on the last line included).
C19_NoPriceReturnsEmpty ==
    (pc \in {"explored", "crashed", "renfe_parsed", "generic_parsed"}
     /\ NoParseablePrice)
       => pc # "crashed" /\ results = <<>>

\* what the provider returned, as a list of rows
Returned == IF data = None THEN <<>> ELSE <<Get(data)>>

Cheapest(n) == SubSeq(results, 1, IF Len(results) < n THEN Len(results) ELSE n)

SortedByPrice ==
    \A k \in 1..(Len(results) - 1) : results[k].price <= results[k + 1].price

\* C20 as stated: the train extraction results are sorted ascending by
\* price, and for 'turista' the Renfe provider returns the 3 cheapest rows
\* and the generic providers the single cheapest.
C20_ThreeCheapestForRenfe ==
    pc \in {"renfe_parsed", "generic_parsed"} =>
       /\ SortedByPrice
       /\ route.classes[cabin_idx + 1] = "turista" =>
             Returned = Cheapest(IF pc = "renfe_parsed" THEN 3 ELSE 1)

\* C20 amended: the train extraction results are sorted ascending by price,
\* and for 'turista' every provider, Renfe as well as the generic ones,
\* returns the single cheapest row (nothing when there is no row).
C20_SingleCheapestReturned ==
    pc \in {"renfe_parsed", "generic_parsed"} =>
       /\ SortedByPrice
       /\ route.classes[cabin_idx + 1] = "turista" =>
             /\ Returned = Cheapest(1)
             /\ \A k \in 1..Len(results) :
                   Returned[1].price <= results[k].price

\* the Renfe page listed a dearer train before a cheaper one and the
\* provider returned the cheaper one alone for turista
C20_Witness ==
    /\ pc = "renfe_parsed"
    /\ route.classes[cabin_idx + 1] = "turista"
    /\ Len(results) >= 2
    /\ results[1].price < results[2].price
    /\ RenfeFrom(page_text, 1) # results
    /\ data = Some(results[1])

\* the list the extractor of the provider makes of the page
Extracted ==
    IF pc = "renfe_parsed" THEN extract_renfe_results(page_text)
    ELSE extract_generic_prices(page_text)

\* C21: for a cabin other than 'turista' each provider returns the cheapest
\* extracted row with its price replaced by 1.6 times that price, rounded
\* to the hundredth, every other attribute unchanged, and nothing when no
\* row was extracted; the list of the extractor is left as it was.
C21_PremiumIsMarkupOfCheapest ==
    (pc \in {"renfe_parsed", "generic_parsed"}
     /\ route.classes[cabin_idx + 1] # "turista") =>
       /\ results = Extracted
       /\ results = <<>> => data = None
       /\ results # <<>> =>
             /\ data # None
             /\ \A k \in 1..Len(results) : results[1].price <= results[k].price
             /\ 5 * Get(data).price - 8 * results[1].price \in -2..2
             /\ [Get(data) EXCEPT !.price = results[1].price] = results[1]

\* a premium price was estimated from the cheaper of two trains of a Renfe
\* page, a train with a departure time
C21_Witness ==
    /\ pc = "renfe_parsed"
    /\ route.classes[cabin_idx + 1] = "preferente"
    /\ Len(results) >= 2
    /\ results[1].price < results[2].price
    /\ data # None
    /\ Get(data).departure_time # ""
    /\ Get(data).price > results[1].price

(***************************************************************************)
(* Properties of the observations and of the rows written (SpecMain)       *)
(***************************************************************************)
\* the observations of the run: the list of the scan in progress and the
\* lists of the routes already scanned
Observations ==
    {results[k] : k \in 1..Len(results)}
    \cup UNION {{run_results[i].results[k] :
                   k \in 1..Len(run_results[i].results)} :
                i \in 1..Len(run_results)}

FailedNotifications(cs) ==
    {k \in 1..Len(cs) : /\ cs[k].provider \in {"osascript", "smtp"}
                        /\ cs[k].kind = "error"}

\* C23: a failure of the osascript call of notify_macos or of the SMTP
\* session of send_email does not reach the alert evaluator or run_check.
\* In every step of the alert evaluator in which a notification fails, the
\* evaluator still emits the signal of every cabin of the route, the history
\* store and the results already collected stay as they were, and run_check
\* goes on to the next route, or to the dashboard after the last one.
C23_NotificationFailureContained ==
    [][(pc = "run_check_alerts" /\ FailedNotifications(calls') # {}) =>
          /\ signals' = Append(signals,
                               IF IsFlightRoute(route)
                               THEN check_flight_alerts(results, route)
                               ELSE check_train_alerts(results, route))
          /\ files' = files
          /\ run_results' = run_results
          /\ route_idx' = route_idx + 1
          /\ pc' = IF route_idx + 1 < Len(Scheduled)
                   THEN ScanEntry(Scheduled[route_idx + 2])
                   ELSE "generate_dashboard"
          /\ route_idx + 1 < Len(Scheduled) =>
                route' = Scheduled[route_idx + 2]]_vars

\* C23 witness: both notifications of a buy signal have failed, the signal
\* of a later cabin of the same route was still emitted, and run_check
\* stands at the start of the next route with the observations in the store
C23_Witness ==
    /\ pc \in {"scrape_flight_route", "scrape_train_route"}
    /\ route_idx >= 1
    /\ route_idx < Len(Scheduled)
    /\ \E k, m \in FailedNotifications(calls) :
          calls[k].provider = "osascript" /\ calls[m].provider = "smtp"
    /\ Len(signals) >= 1
    /\ LET last == signals[Len(signals)]
       IN /\ Len(last) >= 2
          /\ last[1].kind = "buy"
    /\ InStore(TypeOf(Scheduled[route_idx]),
               RowsOf(run_results[route_idx].results))


(***************************************************************************)
(* Separators of the flight prices (SpecText)                              *)
(***************************************************************************)

\* the first line of the page that is the destination name
FirstNamed ==
    Least({i \in 1..Len(page_text) : page_text[i] = <<"Ciudad de México">>})

\* line j is within the 5 lines after the first destination line, its text
\* is amount, and no line between the two carries a currency sign
FirstAmountIs(j, amount) ==
    /\ \E i \in 1..Len(page_text) : page_text[i] = <<"Ciudad de México">>
    /\ j \in (FirstNamed + 1)..(FirstNamed + 5)
    /\ j <= Len(page_text)
    /\ page_text[j] = amount
    /\ \A k \in (FirstNamed + 1)..(j - 1) :
          \A t \in 1..Len(page_text[k]) : page_text[k][t] \notin {"€", "$"}

\* C24: when the first amount within the 5 lines after the destination name
\* is "1.197 €", the flight extractor in EUR mode returns a single candidate
\* with price 1197.00 (the dot separates thousands), and in USD mode, where
\* the dot is the decimal point, the amount is 1.197 and a page that names
\* the destination once gives no candidate; in USD mode the amount "$1,197.00" gives a single
\* candidate with price 1197.00 (the comma separates thousands, the dot is
\* the decimal point).
C24_SeparatorsByCurrency ==
    pc = "explored" =>
       \A j \in 1..Len(page_text) :
          /\ (FirstAmountIs(j, <<"1", ".", "1", "9", "7", " ", "€">>)
              /\ PageCurrency = "EUR") =>
                /\ Len(results) = 1
                /\ results[1].price = 119700
                /\ results[1].currency = "EUR"
          /\ (FirstAmountIs(j, <<"1", ".", "1", "9", "7", " ", "€">>)
              /\ PageCurrency # "EUR"
              /\ \A k \in 1..Len(page_text) :
                    page_text[k] = <<"Ciudad de México">> => k = FirstNamed) =>
                results = <<>>
          /\ (FirstAmountIs(j, <<"$", "1", ",", "1", "9", "7", ".", "0", "0">>)
              /\ PageCurrency # "EUR") =>
                /\ Len(results) = 1
                /\ results[1].price = 119700
                /\ results[1].currency = PageCurrency

\* C24 witness: the EUR profile read a page whose amount "1.197 €" stands 5
\* lines after the destination name and returned the price 1197.00
C24_Witness ==
    /\ pc = "explored"
    /\ PageCurrency = "EUR"
    /\ FirstAmountIs(FirstNamed + 5, <<"1", ".", "1", "9", "7", " ", "€">>)
    /\ Len(results) = 1
    /\ results[1].price = 119700


(***************************************************************************)
(* The window of a destination line after its price (SpecText)             *)
(***************************************************************************)

\* the lines of the first destination line's window that read l, from line
\* a on
InWindow(l, a) ==
    {k \in a..(FirstNamed + 5) : k <= Len(page_text) /\ page_text[k] = l}

\* line j is the first amount after the first destination line, and its
\* amount is one that is accepted in EUR mode
AcceptedAt(j) ==
    /\ PageCurrency = "EUR"
    /\ \/ FirstAmountIs(j, <<"1", ".", "1", "9", "7", " ", "€">>)
       \/ FirstAmountIs(j, <<"8", "9", "0", " ", "€">>)

\* C25 as stated: the scan of a window stops at the line that gives the
\* price, so the stop count and the duration of the candidate come from the
\* lines before the price line only.
C25_ScanStopsAtPrice ==
    pc = "explored" =>
       \A j \in 1..Len(page_text) :
          AcceptedAt(j) =>
             /\ Len(results) = 1
             /\ results[1].stops =
                   (IF \E k \in InWindow(<<"1", " ", "escala">>, FirstNamed + 1) :
                          k < j
                    THEN 1 ELSE 0)
             /\ results[1].duration_min =
                   (IF \E k \in InWindow(<<"1", "1", " ", "h", " ", "3", "0",
                                           " ", "m">>, FirstNamed + 1) : k < j
                    THEN 690 ELSE 0)

\* C25: the first amount of a window fixes the price and later amounts are
\* ignored, but the scan goes on to the end of the 5-line window: a stop
\* count or a duration on a line after the price line is taken as well.
C25_PriceKeptScanGoesOn ==
    pc = "explored" =>
       \A j \in 1..Len(page_text) :
          AcceptedAt(j) =>
             /\ Len(results) = 1
             /\ results[1].price =
                   (IF page_text[j] = <<"8", "9", "0", " ", "€">>
                    THEN 89000 ELSE 119700)
             /\ results[1].stops =
                   (IF InWindow(<<"1", " ", "escala">>, FirstNamed + 1) # {}
                    THEN 1 ELSE 0)
             /\ results[1].duration_min =
                   (IF InWindow(<<"1", "1", " ", "h", " ", "3", "0", " ", "m">>,
                                FirstNamed + 1) # {}
                    THEN 690 ELSE 0)

\* C25 witness: the price line comes first in the window, a stop count
\* follows it, and the candidate has the price and the stop count
C25_Witness ==
    /\ pc = "explored"
    /\ AcceptedAt(FirstNamed + 1)
    /\ InWindow(<<"1", " ", "escala">>, FirstNamed + 2) # {}
    /\ Len(results) = 1
    /\ results[1].price = 89000
    /\ results[1].stops = 1


(***************************************************************************)
(* The reach of a departure marker in the structured strategy (SpecText)   *)
(***************************************************************************)

\* the price lines within n lines after line i
PriceLinesAfter(i, n) ==
    {j \in (i + 1)..(i + n) :
        /\ j <= Len(page_text)
        /\ page_text[j] \in {<<"3", "4", ",", "7", "0", " ", "€">>,
                             <<"2", "5", " ", "€">>,
                             <<"6", "0", "0", " ", "€">>}}

\* the row a departure marker at line i gives when its scan ends at the
\* price line j: the first duration phrase and the first later time line
\* between the two
RowBetween(i, j) ==
    LET between == (i + 1)..(j - 1)
        durs == {k \in between : page_text[k] = <<"2", " ", "horas", " ", "2",
                                                  "2", " ", "minutos">>}
        arrs == {k \in between : k \in TimeLines}
    IN Row(IF page_text[j] = <<"2", "5", " ", "€">> THEN 2500 ELSE 3470,
           "",
           Get(TimeOfLine(Strip(page_text[i]))),
           IF arrs = {} THEN ""
           ELSE Get(TimeOfLine(Strip(page_text[Least(arrs)]))),
           IF durs = {} THEN "" ELSE "2h 22m")

\* C26: every departure marker at line i is scanned over the lines i+1 ..
\* i+14: when the first price token of those lines is strictly between 5 and
\* 500 the marker gives a row with that price, the first duration phrase and
\* the first later time as arrival (a price exactly 14 lines after the marker
\* included), and the rows returned are exactly those.
C26_ScansFourteenLines ==
    pc = "renfe_parsed" =>
       LET rows == {RowBetween(i, Least(PriceLinesAfter(i, 14))) :
                      i \in {t \in TimeLines :
                               /\ PriceLinesAfter(t, 14) # {}
                               /\ page_text[Least(PriceLinesAfter(t, 14))]
                                     # <<"6", "0", "0", " ", "€">>}}
       IN {results[k] : k \in 1..Len(results)} = rows


(***************************************************************************)
(* The premium tier on a page of several structured rows (SpecText)        *)
(***************************************************************************)

\* the Renfe page gave n structured rows or more and the cabin is premium
PremiumWithRows(n) ==
    /\ pc = "renfe_parsed"
    /\ route.classes[cabin_idx + 1] # "turista"
    /\ Len(results) >= n

\* C27 as stated: with two structured rows or more the premium tier returns
\* a row of the upper half of the price-sorted rows, as it was extracted,
\* and makes no estimate.
C27_UpperMedianSlice ==
    PremiumWithRows(2) =>
       /\ data # None
       /\ \E k \in (Len(results) \div 2 + 1)..Len(results) :
             Get(data) = results[k]

\* C27: however many structured rows the Renfe page gives, the premium tier
\* is estimated: the row returned is the cheapest row with 1.6 times its
\* price, and no row of the list is returned at its own price.
C27_AlwaysEstimated ==
    PremiumWithRows(2) =>
       /\ data # None
       /\ Get(data).price = (16 * results[1].price + 5) \div 10
       /\ Get(data).departure_time = results[1].departure_time
       /\ Get(data).arrival_time = results[1].arrival_time
       /\ Get(data).duration = results[1].duration
       /\ \A k \in 1..Len(results) :
             /\ Get(data) # results[k]
             /\ results[1].price <= results[k].price

\* C27 witness: two structured rows of different prices, and the estimate
\* returned is above the cheapest and is the price of no row
C27_Witness ==
    /\ PremiumWithRows(2)
    /\ results[1].price < results[Len(results) \div 2 + 1].price
    /\ data # None
    /\ Get(data).price > results[1].price
    /\ \A k \in 1..Len(results) : Get(data).price # results[k].price


(***************************************************************************)
(* The order of run_check and the route filter (SpecMain)                  *)
(***************************************************************************)

\* the routes of the configuration that the arguments of the run let
\* through, as ids: those of the transport asked for whose id is the filter
\* when a filter is given
MatchingIds ==
    {rt.id : rt \in
       {r \in {config.flights[k] : k \in 1..Len(config.flights)}
              \cup {config.trains[k] : k \in 1..Len(config.trains)} :
          /\ IsFlightRoute(r) => ~config.trains_only
          /\ ~IsFlightRoute(r) => ~config.flights_only
          /\ config.route_filter # None => r.id = Get(config.route_filter)}}

\* run_check is working on a route: scanning it, logging it or evaluating it
RouteInHand ==
    pc \notin {"main", "migrated", "sleep", "stopped", "generate_dashboard",
               "crashed"}

\* the position of route id in the configuration, flights first
PlaceOf(id) ==
    LET routes == config.flights \o config.trains
    IN CHOOSE k \in 1..Len(routes) : routes[k].id = id

\* C28: in run_check the observations of a route are in the history store
\* before the alert evaluator runs for it; the routes are processed one
\* after another in the order of the configuration, flights before trains,
\* the next route starting only when the evaluator has run for the one
\* before; a route that does not match the route filter is neither scanned,
\* logged nor evaluated; and the dashboard is generated only when every
\* matching route has been scanned, logged and evaluated.
C28_RoutesOneAfterAnother ==
    [][/\ RouteInHand =>
             /\ route.id \in MatchingIds
             /\ Len(signals) = route_idx
             /\ Len(run_results) \in {route_idx, route_idx + 1}
             /\ \A i \in 1..Len(run_results) :
                   /\ run_results[i].id \in MatchingIds
                   /\ i <= route_idx => PlaceOf(run_results[i].id)
                                           < PlaceOf(route.id)
       /\ Len(signals') > Len(signals) =>
             /\ Len(run_results) = Len(signals) + 1
             /\ run_results[Len(run_results)]
                   = [id |-> route.id, results |-> results]
             /\ InStore(TypeOf(route), RowsOf(results))
             /\ files' = files
       /\ Len(run_results') > Len(run_results) =>
             /\ pc \in {"log_flight_results", "log_train_results"}
             /\ Len(run_results) = Len(signals)
       /\ (route' # route /\ runs' = runs) =>
             /\ Len(signals') = Len(signals) + 1
             /\ PlaceOf(route.id) < PlaceOf(route'.id)
       /\ config.route_filter # None =>
             \A t \in StoreTypes :
                \A k \in 2..Len(files'[t].lines) :
                   files'[t].lines[k][2] = Get(config.route_filter)
       /\ pc = "generate_dashboard" =>
             /\ {run_results[i].id : i \in 1..Len(run_results)} = MatchingIds
             /\ Len(run_results) = Cardinality(MatchingIds)
             /\ Len(signals) = Len(run_results)]_vars

\* C28 witness: with the flight route and a train route configured and the
\* train route given as filter, run_check is at the dashboard; only the
\* train route was scanned, logged and evaluated, and no flight file exists
C28_Witness ==
    /\ pc = "generate_dashboard"
    /\ config.flights # <<>>
    /\ config.route_filter = Some("MAD-VGO")
    /\ Len(run_results) = 1
    /\ run_results[1].id = "MAD-VGO"
    /\ run_results[1].results # <<>>
    /\ Len(signals) = 1
    /\ ~files["flight"].exists
    /\ InStore("train", RowsOf(run_results[1].results))


(***************************************************************************)
(* The header row and the routing of the store (SpecMain)                  *)
(***************************************************************************)

\* the lines of file f that are the header row
HeaderRows(f) == {k \in 1..Len(f.lines) : f.lines[k] = CSV_HEADERS}

\* C29: through the calls of log_results and migrate_old_csv each store file
\* that exists begins with the header row of 14 columns and has no other
\* header row; a call writes the header only when it creates the file; and
\* every row a call adds to a file carries the transport type of that file.
C29_OneHeaderRowsRouted ==
    [][\A t \in StoreTypes :
          /\ Len(CSV_HEADERS) = 14
          /\ files'[t].exists =>
                /\ files'[t].lines # <<>>
                /\ HeaderRows(files'[t]) = {1}
          /\ ~files'[t].exists => files'[t].lines = <<>>
          /\ files[t].exists =>
                /\ files'[t].exists
                /\ HeaderRows(files'[t]) = HeaderRows(files[t])
          /\ \A k \in (Len(files[t].lines) + 1)..Len(files'[t].lines) :
                /\ Len(files'[t].lines[k]) = 14
                /\ k > 1 => files'[t].lines[k][3] = t]_vars

\* C29 witness: the flight file was created by the migration, log_results
\* has appended the rows of a flight scan to it and has created the train
\* file for a train scan; each file has its header as first line only
C29_Witness ==
    /\ old_csv.exists
    /\ \A t \in StoreTypes : files[t].exists /\ HeaderRows(files[t]) = {1}
    /\ Len(files["flight"].lines) >= 3
    /\ files["flight"].lines[2][14] = ""
    /\ files["flight"].lines[Len(files["flight"].lines)][14] # ""
    /\ files["flight"].lines[Len(files["flight"].lines)][3] = "flight"
    /\ Len(files["train"].lines) >= 2
    /\ files["train"].lines[2][3] = "train"


(***************************************************************************)
(* The travel dates of a scan (SpecDates)                                  *)
(***************************************************************************)

\* the scan of the route has computed its first travel date
DatesComputed ==
    \/ pc \in {"flight_query", "renfe", "append"}
    \/ (pc \in {"log_flight_results", "log_train_results"} /\ ~LaunchFailed)

\* C30: whatever the weekday of today, the first travel date of a flight or
\* train scan is a Monday 1 to 7 days after today (7 when today is a Monday),
\* the queries of week w travel on that Monday plus 7 w days, a completed
\* scan has made the queries of exactly route.weeks Mondays, one per cabin,
\* and the return date of a flight query is its departure date plus 3 days.
C30_MondaysAhead ==
    DatesComputed =>
       /\ next_monday % 7 = 0
       /\ next_monday - today \in 1..7
       /\ today % 7 = 0 => next_monday = today + 7
       /\ \A k \in 1..Len(results) :
             /\ results[k].travel_date
                   = next_monday + 7 * ((k - 1) \div Len(route.classes))
             /\ results[k].week_start = results[k].travel_date
       /\ pc \in {"log_flight_results", "log_train_results"} =>
             /\ Len(results) = route.weeks * Len(route.classes)
             /\ {results[k].travel_date : k \in 1..Len(results)}
                   = {next_monday + 7 * w : w \in 0..(route.weeks - 1)}
       /\ (IsFlightRoute(route) /\ results # <<>>) =>
             /\ query # None
             /\ Get(query).dep_date = results[Len(results)].travel_date
             /\ Get(query).ret_date = Get(query).dep_date + 3

\* C30 witness: a flight scan started on a Monday has made the queries of
\* two weeks; they travel 7 and 14 days later, the last returning on the
\* Thursday
C30_Witness ==
    /\ pc = "log_flight_results"
    /\ today % 7 = 0
    /\ route.weeks >= 2
    /\ results # <<>>
    /\ results[1].travel_date = today + 7
    /\ results[Len(results)].travel_date = today + 7 * route.weeks
    /\ query # None
    /\ Get(query).ret_date = today + 7 * route.weeks + 3

====
